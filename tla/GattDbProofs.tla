---------------------------- MODULE GattDbProofs ----------------------------
(***************************************************************************)
(* Proofs about GattDb: whatever sequence of calls is made, the services   *)
(* lie apart and in order, so do the attributes of each, every attribute   *)
(* is found under its handle, and what a declaration announces is there.   *)
(*                                                                         *)
(* gatt_db_clear_range goes through the services one by one: what is left  *)
(* is a recursive function, and its properties come by an induction over   *)
(* the number of services gone through.                                    *)
(***************************************************************************)
EXTENDS GattDb, TLAPS, SequenceTheorems, WellFoundedInduction

-----------------------------------------------------------------------------
(* Numbers and sequences *)

\* A set of numbers that is not empty has a least one.
LEMMA Least ==
    ASSUME NEW T, T \subseteq Nat, T # {}
    PROVE  \E x \in T : \A y \in T : x <= y
<1>1. PICK x \in T : \A y \in T : ~(<<y, x>> \in OpToRel(<, Nat))
  BY NatLessThanWellFounded, WFMin
<1>2. \A y \in T : ~(y < x)
  BY <1>1 DEF OpToRel
<1> QED
  BY <1>2

\* Min finds it.
LEMMA MinIsLeast ==
    ASSUME NEW T, T \subseteq Nat, T # {}
    PROVE  Min(T) \in T /\ \A y \in T : Min(T) <= y
BY Least DEF Min

\* Induction over numbers, with a set of numbers for the property.
LEMMA Counting ==
    ASSUME NEW n \in Nat, NEW T, 0 \in T,
           \A k \in 0 .. n - 1 : k \in T => k + 1 \in T
    PROVE  0 .. n \subseteq T
<1> SUFFICES ASSUME (0 .. n) \ T # {} PROVE FALSE
  OBVIOUS
<1>1. PICK x \in (0 .. n) \ T : \A y \in (0 .. n) \ T : x <= y
  <2>1. (0 .. n) \ T \subseteq Nat
    OBVIOUS
  <2> QED
    BY <2>1, Least
<1>2. x - 1 \in 0 .. n - 1 /\ (x - 1) + 1 = x /\ x - 1 \in 0 .. n
  BY <1>1
<1> QED
  BY <1>1, <1>2

\* What InsertAt returns, element by element.
LEMMA InsertAtElements ==
    ASSUME NEW S, NEW q \in Seq(S), NEW k \in 1 .. Len(q) + 1, NEW e \in S
    PROVE  /\ InsertAt(q, k, e) \in Seq(S)
           /\ Len(InsertAt(q, k, e)) = Len(q) + 1
           /\ \A i \in 1 .. Len(q) + 1 :
                  InsertAt(q, k, e)[i] = IF i < k THEN q[i]
                                         ELSE IF i = k THEN e ELSE q[i - 1]
<1> DEFINE l == SubSeq(q, 1, k - 1)
           m == l \o <<e>>
           r == SubSeq(q, k, Len(q))
<1>1. Len(q) \in Nat /\ k \in Int /\ 1 <= k /\ k <= Len(q) + 1
  BY LenProperties
<1>2. /\ l \in Seq(S) /\ Len(l) = k - 1
      /\ \A i \in 1 .. k - 1 : l[i] = q[i]
  BY <1>1, SubSeqProperties
<1>3. /\ r \in Seq(S) /\ Len(r) = Len(q) - k + 1
      /\ \A i \in 1 .. Len(q) - k + 1 : r[i] = q[k + i - 1]
  BY <1>1, SubSeqProperties
<1> HIDE DEF l, r
<1>4. /\ m \in Seq(S) /\ Len(m) = k
      /\ \A i \in 1 .. k : m[i] = IF i < k THEN q[i] ELSE e
  <2>1. <<e>> \in Seq(S) /\ Len(<<e>>) = 1 /\ <<e>>[1] = e
    OBVIOUS
  <2>2. /\ m \in Seq(S) /\ Len(m) = Len(l) + 1
        /\ \A i \in 1 .. Len(l) + 1 :
               m[i] = IF i <= Len(l) THEN l[i] ELSE <<e>>[i - Len(l)]
    BY <1>2, <2>1, ConcatProperties
  <2>3. ASSUME NEW i \in 1 .. k
        PROVE  m[i] = IF i < k THEN q[i] ELSE e
    BY <1>1, <1>2, <2>1, <2>2
  <2> QED
    BY <1>1, <1>2, <2>2, <2>3
<1> HIDE DEF m
<1>5. /\ m \o r \in Seq(S) /\ Len(m \o r) = Len(m) + Len(r)
      /\ \A i \in 1 .. Len(m) + Len(r) :
             (m \o r)[i] = IF i <= Len(m) THEN m[i] ELSE r[i - Len(m)]
  BY <1>3, <1>4, ConcatProperties
<1>6. Len(m) + Len(r) = Len(q) + 1
  BY <1>1, <1>3, <1>4
<1>7. ASSUME NEW i \in 1 .. Len(q) + 1
      PROVE  (m \o r)[i] = IF i < k THEN q[i]
                           ELSE IF i = k THEN e ELSE q[i - 1]
  <2>1. CASE i <= k
    BY <1>1, <1>4, <1>5, <1>6, <2>1
  <2>2. CASE i > k
    <3>1. i - k \in 1 .. Len(q) - k + 1 /\ k + (i - k) - 1 = i - 1
      BY <1>1, <2>2
    <3>2. r[i - k] = q[k + (i - k) - 1]
      BY <1>3, <3>1
    <3>3. (m \o r)[i] = r[i - k]
      BY <1>1, <1>4, <1>5, <1>6, <2>2
    <3> QED
      BY <1>1, <2>2, <3>1, <3>2, <3>3
  <2>3. i <= k \/ i > k
    BY <1>1
  <2> QED
    BY <2>1, <2>2, <2>3, Zenon
<1>8. InsertAt(q, k, e) = m \o r
  BY DEF InsertAt, l, m, r
<1> QED
  BY <1>5, <1>6, <1>7, <1>8

\* What RemoveAt leaves, element by element.
LEMMA RemoveAtElements ==
    ASSUME NEW S, NEW q \in Seq(S), NEW i \in DOMAIN q
    PROVE  /\ RemoveAt(q, i) \in Seq(S)
           /\ DOMAIN RemoveAt(q, i) = 1 .. Len(q) - 1
           /\ \A k \in 1 .. Len(q) - 1 :
                 RemoveAt(q, i)[k] = IF k < i THEN q[k] ELSE q[k + 1]
<1> DEFINE l == SubSeq(q, 1, i - 1)
           r == SubSeq(q, i + 1, Len(q))
           n == RemoveAt(q, i)
<1>1. DOMAIN q = 1 .. Len(q) /\ Len(q) \in Nat /\ i \in 1 .. Len(q)
  BY LenProperties
<1>2. /\ l \in Seq(S) /\ Len(l) = i - 1
      /\ \A k \in 1 .. i - 1 : l[k] = q[k]
  BY <1>1, SubSeqProperties, ElementOfSeq
<1>3. /\ r \in Seq(S) /\ Len(r) = Len(q) - i
      /\ \A k \in 1 .. Len(q) - i : r[k] = q[k + i]
  BY <1>1, SubSeqProperties, ElementOfSeq
<1>4. n = l \o r
  BY DEF RemoveAt
<1> HIDE DEF l, r, n
<1>5. /\ n \in Seq(S) /\ Len(n) = Len(l) + Len(r)
      /\ \A k \in 1 .. Len(l) + Len(r) :
            n[k] = IF k <= Len(l) THEN l[k] ELSE r[k - Len(l)]
  BY <1>2, <1>3, <1>4, ConcatProperties
<1>6. DOMAIN n = 1 .. Len(q) - 1
  BY <1>1, <1>2, <1>3, <1>5, LenProperties
<1>7. ASSUME NEW k \in DOMAIN n
      PROVE  n[k] = IF k < i THEN q[k] ELSE q[k + 1]
  <2>1. k \in 1 .. Len(l) + Len(r)
    BY <1>1, <1>2, <1>3, <1>6
  <2>2. n[k] = IF k <= i - 1 THEN l[k] ELSE r[k - (i - 1)]
    BY <2>1, <1>2, <1>5
  <2>3. CASE k < i
    BY <2>1, <2>2, <2>3, <1>1, <1>2
  <2>4. CASE k >= i
    <3>1. k - (i - 1) \in 1 .. Len(q) - i
      BY <2>4, <1>1, <1>6
    <3>2. k - (i - 1) + i = k + 1
      BY <1>1, <1>6
    <3>3. r[k - (i - 1)] = q[k - (i - 1) + i]
      BY <3>1, <1>3
    <3>4. ~(k <= i - 1) /\ ~(k < i)
      BY <2>4, <1>1, <1>6
    <3> QED
      BY <2>2, <3>2, <3>3, <3>4
  <2> QED
    BY <2>3, <2>4, <1>1, <1>6
<1> QED
  BY <1>5, <1>6, <1>7 DEF n

-----------------------------------------------------------------------------
\* What a database holds
UuidSet == Uuids \cup Reserved
Atom == {{"READ"}} \cup Nat \cup {u.name : u \in UuidSet}

Attr == [handle : Handles, uuid : UuidSet, perms : {{"READ"}},
         value : Seq(Atom), read : {"stored"}, write : {"stored"}]

Service == [active : BOOLEAN, num_handles : Handles, attributes : Seq(Attr)]

-----------------------------------------------------------------------------
\* The strengthening. Of a service: its attributes lie in its range and
\* ascend, and each lies at least as far from the start as its place in
\* attributes[] (the places are what the code counts).
Ascending(s) ==
    LET a == s.attributes
    IN  /\ \A i \in DOMAIN a : a[i].handle \in Start(s) + i - 1 .. End(s)
        /\ \A i, j \in DOMAIN a : i < j => a[i].handle < a[j].handle

\* The UUID of a declaration comes behind the properties and the handle
AnnouncedUuid(v) == Tail(Tail(Tail(v)))

Follows(s) ==
    LET a == s.attributes
    IN  \A i \in DOMAIN a : a[i].uuid = CHARACTERISTIC =>
            /\ i + 1 \in DOMAIN a
            /\ a[i + 1].handle = a[i].value[2]
            /\ a[i].value[2] = a[i].handle + 1
            /\ AnnouncedUuid(a[i].value) = UuidBytes(a[i + 1].uuid)

Sound(s) ==
    /\ s \in Service
    /\ Len(s.attributes) \in 1 .. s.num_handles
    /\ End(s) \in Handles
    /\ Ascending(s)
    /\ Follows(s)

\* Of the services: any two lie apart
Apart(q) == \A k, l \in DOMAIN q : k < l => End(q[k]) < Start(q[l])

AllSound(q) == q \in Seq(Service) /\ Apart(q) /\ \A k \in DOMAIN q : Sound(q[k])

\* What service_insert_included announces of a service
Announced(s) ==
    LET uuid == s.attributes[1].value
    IN  <<Start(s), End(s)>> \o (IF Len(uuid) = 2 THEN uuid ELSE << >>)

Announces(s, q) ==
    \A i \in DOMAIN s.attributes :
        s.attributes[i].uuid = INCLUDED =>
            \E l \in DOMAIN q : s.attributes[i].value = Announced(q[l])

Database == [services : Seq(Service), next_handle : 0 .. MaxHandle]

Good(d) ==
    /\ d \in Database
    /\ AllSound(d.services)
    /\ \A k \in DOMAIN d.services : Announces(d.services[k], d.services)

-----------------------------------------------------------------------------
(* Attributes and their values *)

LEMMA UuidType ==
    ASSUME NEW u \in UuidSet
    PROVE  /\ UuidBytes(u) \in Seq(Atom)
           /\ u \in Uuids => u # CHARACTERISTIC /\ u # INCLUDED
<1>1. u.size \in Nat
  BY UuidAssumption DEF UuidSet, Reserved, PRIMARY, SECONDARY,
                        CHARACTERISTIC, INCLUDED
<1>2. u.name \in Atom
  BY DEF Atom
<1>3. UuidBytes(u) \in Seq(Atom)
  BY <1>1, <1>2 DEF UuidBytes
<1>4. u \in Uuids => u # CHARACTERISTIC /\ u # INCLUDED
  BY UuidAssumption, Zenon DEF Reserved
<1> QED
  BY <1>3, <1>4

LEMMA ReservedUuids ==
    /\ Reserved \subseteq UuidSet /\ Uuids \subseteq UuidSet
    /\ CHARACTERISTIC # INCLUDED
    /\ {PRIMARY, SECONDARY} \cap {CHARACTERISTIC, INCLUDED} = {}
    /\ {PRIMARY, SECONDARY, CHARACTERISTIC, INCLUDED} \subseteq Reserved
BY DEF UuidSet, Reserved, PRIMARY, SECONDARY, CHARACTERISTIC, INCLUDED

LEMMA HeaderType ==
    ASSUME NEW h \in Seq(Atom), Len(h) = 3, NEW q \in Seq(Atom)
    PROVE  /\ h \o q \in Seq(Atom) /\ (h \o q)[2] = h[2]
           /\ AnnouncedUuid(h \o q) = q
<1> DEFINE v == h \o q
           w == Tail(Tail(Tail(v)))
<1>1. h \in Seq(Atom) /\ Len(h) = 3
  OBVIOUS
<1>2. Len(q) \in Nat
  BY LenProperties
<1>3. /\ v \in Seq(Atom) /\ Len(v) = 3 + Len(q)
      /\ \A i \in 1 .. 3 + Len(q) :
             v[i] = IF i <= 3 THEN h[i] ELSE q[i - 3]
  <2>1. /\ v \in Seq(Atom) /\ Len(v) = Len(h) + Len(q)
        /\ \A i \in 1 .. Len(h) + Len(q) :
               v[i] = IF i <= Len(h) THEN h[i] ELSE q[i - Len(h)]
    BY <1>1, ConcatProperties
  <2> HIDE DEF v
  <2> QED
    BY <1>1, <2>1
<1> HIDE DEF v
<1>4. v[2] = h[2]
  BY <1>1, <1>2, <1>3
<1>5. /\ w \in Seq(Atom) /\ Len(w) = Len(q)
      /\ \A i \in 1 .. Len(q) : w[i] = v[i + 3]
  <2> DEFINE a == Tail(v)
             b == Tail(a)
  <2>1. /\ a \in Seq(Atom) /\ Len(a) = 2 + Len(q)
        /\ \A i \in 1 .. 2 + Len(q) : a[i] = v[i + 1]
    BY <1>2, <1>3, HeadTailProperties
  <2> HIDE DEF a
  <2>2. /\ b \in Seq(Atom) /\ Len(b) = 1 + Len(q)
        /\ \A i \in 1 .. 1 + Len(q) : b[i] = a[i + 1]
    BY <1>2, <2>1, HeadTailProperties
  <2> HIDE DEF b
  <2>3. /\ Tail(b) \in Seq(Atom) /\ Len(Tail(b)) = Len(q)
        /\ \A i \in 1 .. Len(q) : Tail(b)[i] = b[i + 1]
    BY <1>2, <2>2, HeadTailProperties
  <2>4. ASSUME NEW i \in 1 .. Len(q) PROVE Tail(b)[i] = v[i + 3]
    <3>1. i + 1 \in 1 .. 1 + Len(q) /\ i + 2 \in 1 .. 2 + Len(q)
          /\ (i + 1) + 1 = i + 2 /\ (i + 2) + 1 = i + 3
      BY <1>2
    <3>2. Tail(b)[i] = b[i + 1] /\ b[i + 1] = a[i + 2] /\ a[i + 2] = v[i + 3]
      BY <2>1, <2>2, <2>3, <3>1
    <3> QED
      BY <3>2
  <2> QED
    BY <2>3, <2>4 DEF a, b
<1> HIDE DEF w
<1>6. ASSUME NEW i \in 1 .. Len(q) PROVE w[i] = q[i]
  <2>1. i + 3 \in 1 .. 3 + Len(q) /\ ~(i + 3 <= 3) /\ (i + 3) - 3 = i
    BY <1>2
  <2>2. v[i + 3] = q[i]
    BY <1>3, <2>1
  <2> QED
    BY <1>5, <2>2
<1>7. w = q
  BY <1>5, <1>6, SeqEqual
<1> QED
  BY <1>3, <1>4, <1>7 DEF v, w, AnnouncedUuid

LEMMA DeclaredType ==
    ASSUME NEW h \in Handles, NEW u \in UuidSet
    PROVE  LET v == Declared({"READ"}, h, u)
           IN  v \in Seq(Atom) /\ v[2] = h /\ AnnouncedUuid(v) = UuidBytes(u)
<1>1. {"READ"} \in Atom /\ h \in Atom /\ UuidBytes(u) \in Seq(Atom)
  BY UuidType, HandleAssumption DEF Atom, Handles
<1> DEFINE l == <<{"READ"}, h, h>>
<1>2. l \in Seq(Atom) /\ Len(l) = 3 /\ l[2] = h
  BY <1>1
<1>3. Declared({"READ"}, h, u) = l \o UuidBytes(u)
  BY DEF Declared
<1> HIDE DEF l
<1> QED
  BY <1>1, <1>2, <1>3, HeaderType

LEMMA AttributeType ==
    ASSUME NEW h \in Handles, NEW u \in UuidSet, NEW v \in Seq(Atom)
    PROVE  LET a == Attribute(h, u, {"READ"}, v, "stored", "stored")
           IN  a \in Attr /\ a.handle = h /\ a.uuid = u /\ a.value = v
BY DEF Attribute, Attr

LEMMA FixedType ==
    ASSUME NEW h \in Handles, NEW u \in Reserved, NEW v \in Seq(Atom)
    PROVE  LET a == Fixed(h, u, v)
           IN  a \in Attr /\ a.handle = h /\ a.uuid = u /\ a.value = v
BY AttributeType, ReservedUuids DEF Fixed

-----------------------------------------------------------------------------
(* A service that gets more attributes *)

More(s, new) == [s EXCEPT !.attributes = @ \o new]

\* new may come behind the attributes of s
Fits(s, new) ==
    LET a == s.attributes
    IN  /\ new \in Seq(Attr)
        /\ Len(a) + Len(new) <= s.num_handles
        /\ \A j \in DOMAIN new :
               /\ new[j].handle \in Start(s) + Len(a) + j - 1 .. End(s)
               /\ \A i \in DOMAIN a : a[i].handle < new[j].handle
        /\ \A i, j \in DOMAIN new : i < j => new[i].handle < new[j].handle
        /\ \A j \in DOMAIN new : new[j].uuid = CHARACTERISTIC =>
               /\ j + 1 \in DOMAIN new
               /\ new[j + 1].handle = new[j].value[2]
               /\ new[j].value[2] = new[j].handle + 1
               /\ AnnouncedUuid(new[j].value) = UuidBytes(new[j + 1].uuid)

LEMMA Extended ==
    ASSUME NEW s, Sound(s), NEW new, Fits(s, new)
    PROVE  /\ Sound(More(s, new))
           /\ Start(More(s, new)) = Start(s)
           /\ End(More(s, new)) = End(s)
           /\ Announced(More(s, new)) = Announced(s)
           /\ DOMAIN More(s, new).attributes
                  = 1 .. Len(s.attributes) + Len(new)
           /\ \A i \in 1 .. Len(s.attributes) + Len(new) :
                  More(s, new).attributes[i] =
                      IF i <= Len(s.attributes) THEN s.attributes[i]
                      ELSE new[i - Len(s.attributes)]
<1> DEFINE a == s.attributes
           c == a \o new
           t == More(s, new)
           n == Len(a)
           m == Len(new)
<1>1. /\ s \in Service /\ a \in Seq(Attr) /\ new \in Seq(Attr)
      /\ n \in 1 .. s.num_handles /\ n \in Nat /\ m \in Nat
      /\ DOMAIN a = 1 .. n /\ DOMAIN new = 1 .. m
      /\ n + m <= s.num_handles
      /\ s.num_handles \in Nat
  BY LenProperties DEF Sound, Fits, Service, Handles
<1>2. /\ c \in Seq(Attr) /\ Len(c) = n + m
      /\ \A i \in 1 .. n + m : c[i] = IF i <= n THEN a[i] ELSE new[i - n]
  BY <1>1, ConcatProperties
<1> HIDE DEF c
<1>3. t = [s EXCEPT !.attributes = c]
  BY DEF More, c
<1>4. t \in Service /\ t.attributes = c /\ t.num_handles = s.num_handles
  <2>1. t \in Service
    BY <1>1, <1>2, <1>3, Zenon DEF Service
  <2> QED
    BY <1>1, <1>3, <2>1 DEF Service
<1>5. DOMAIN c = 1 .. n + m
  BY <1>2, LenProperties
<1>6. c[1] = a[1]
  BY <1>1, <1>2
<1>7. Start(t) = Start(s) /\ End(t) = End(s) /\ Announced(t) = Announced(s)
  BY <1>4, <1>6 DEF Start, End, Announced
<1> HIDE DEF t
<1>8. ASSUME NEW i \in 1 .. n + m
      PROVE  \/ i \in 1 .. n /\ c[i] = a[i]
             \/ i - n \in 1 .. m /\ i > n /\ c[i] = new[i - n]
  BY <1>1, <1>2
<1>9. Start(s) \in Int /\ End(s) \in Int
  <2>1. a[1] \in Attr
    BY <1>1, ElementOfSeq
  <2> QED
    BY <1>1, <2>1 DEF Start, End, Attr, Handles
<1>10. Ascending(t)
  <2>1. ASSUME NEW i \in 1 .. n + m
        PROVE  c[i].handle \in Start(s) + i - 1 .. End(s)
    <3>1. CASE i \in 1 .. n /\ c[i] = a[i]
      BY <1>1, <3>1 DEF Sound, Ascending
    <3>2. CASE i - n \in 1 .. m /\ c[i] = new[i - n]
      <4>1. new[i - n].handle \in Start(s) + n + (i - n) - 1 .. End(s)
        BY <1>1, <3>2 DEF Fits
      <4>2. Start(s) + n + (i - n) - 1 = Start(s) + i - 1
        BY <1>1, <1>9
      <4> QED
        BY <3>2, <4>1, <4>2
    <3> QED
      BY <1>8, <3>1, <3>2
  <2>2. ASSUME NEW i \in 1 .. n + m, NEW j \in 1 .. n + m, i < j
        PROVE  c[i].handle < c[j].handle
    <3>1. CASE i \in 1 .. n /\ c[i] = a[i] /\ j \in 1 .. n /\ c[j] = a[j]
      BY <1>1, <2>2, <3>1 DEF Sound, Ascending
    <3>2. CASE i \in 1 .. n /\ c[i] = a[i] /\ j - n \in 1 .. m
               /\ c[j] = new[j - n]
      BY <1>1, <3>2 DEF Fits
    <3>3. CASE i - n \in 1 .. m /\ c[i] = new[i - n]
               /\ j - n \in 1 .. m /\ c[j] = new[j - n]
      <4>1. i - n < j - n
        BY <1>1, <2>2
      <4> QED
        BY <1>1, <3>3, <4>1 DEF Fits
    <3>4. ~(i > n /\ j \in 1 .. n)
      BY <1>1, <2>2
    <3> QED
      BY <1>8, <3>1, <3>2, <3>3, <3>4
  <2> QED
    BY <1>4, <1>5, <1>7, <2>1, <2>2 DEF Ascending
<1>11. Follows(t)
  <2> SUFFICES ASSUME NEW i \in 1 .. n + m, c[i].uuid = CHARACTERISTIC
               PROVE  /\ i + 1 \in 1 .. n + m
                      /\ c[i + 1].handle = c[i].value[2]
                      /\ c[i].value[2] = c[i].handle + 1
                      /\ AnnouncedUuid(c[i].value) = UuidBytes(c[i + 1].uuid)
    BY <1>4, <1>5 DEF Follows
  <2>1. CASE i \in 1 .. n /\ c[i] = a[i]
    <3>1. /\ i + 1 \in 1 .. n
          /\ a[i + 1].handle = a[i].value[2]
          /\ a[i].value[2] = a[i].handle + 1
          /\ AnnouncedUuid(a[i].value) = UuidBytes(a[i + 1].uuid)
      BY <1>1, <2>1 DEF Sound, Follows
    <3>2. c[i + 1] = a[i + 1] /\ i + 1 \in 1 .. n + m
      BY <1>1, <1>2, <3>1
    <3> QED
      BY <2>1, <3>1, <3>2
  <2>2. CASE i - n \in 1 .. m /\ c[i] = new[i - n]
    <3> DEFINE j == i - n
    <3>1. /\ j + 1 \in 1 .. m
          /\ new[j + 1].handle = new[j].value[2]
          /\ new[j].value[2] = new[j].handle + 1
          /\ AnnouncedUuid(new[j].value) = UuidBytes(new[j + 1].uuid)
      <4>1. j \in 1 .. m /\ new[j].uuid = CHARACTERISTIC
        BY <2>2
      <4> HIDE DEF j
      <4> QED
        BY <1>1, <4>1 DEF Fits
    <3>2. i + 1 \in 1 .. n + m /\ ~(i + 1 <= n) /\ (i + 1) - n = j + 1
      BY <1>1, <2>2, <3>1
    <3> HIDE DEF j
    <3>3. c[i + 1] = new[j + 1]
      <4>1. c[i + 1] = new[(i + 1) - n]
        BY <1>2, <3>2
      <4> QED
        BY <3>2, <4>1
    <3>4. c[i] = new[j]
      BY <2>2 DEF j
    <3> QED
      BY <3>1, <3>2, <3>3, <3>4
  <2> QED
    BY <1>8, <2>1, <2>2
<1>12. Sound(t)
  <2>1. Len(c) \in 1 .. s.num_handles
    BY <1>1, <1>2
  <2> QED
    BY <1>4, <1>7, <1>10, <1>11, <2>1 DEF Sound
<1> QED
  BY <1>2, <1>4, <1>5, <1>7, <1>12 DEF t

LEMMA Replaced ==
    ASSUME NEW q, AllSound(q), \A l \in DOMAIN q : Announces(q[l], q),
           NEW k \in DOMAIN q, NEW t, Sound(t), Announces(t, q),
           Start(t) = Start(q[k]), End(t) = End(q[k]),
           Announced(t) = Announced(q[k])
    PROVE  /\ AllSound([q EXCEPT ![k] = t])
           /\ \A l \in DOMAIN q :
                  Announces([q EXCEPT ![k] = t][l], [q EXCEPT ![k] = t])
<1> DEFINE p == [q EXCEPT ![k] = t]
<1>1. /\ p \in Seq(Service) /\ DOMAIN p = DOMAIN q /\ p[k] = t
      /\ \A l \in DOMAIN q : l # k => p[l] = q[l]
  BY DEF AllSound, Sound
<1> HIDE DEF p
<1>2. \A l \in DOMAIN q : /\ Start(p[l]) = Start(q[l])
                          /\ End(p[l]) = End(q[l])
                          /\ Announced(p[l]) = Announced(q[l])
                          /\ Sound(p[l])
  BY <1>1 DEF AllSound
<1>3. AllSound(p)
  BY <1>1, <1>2 DEF AllSound, Apart
<1>4. ASSUME NEW l \in DOMAIN q PROVE Announces(p[l], p)
  <2>1. Announces(p[l], q)
    BY <1>1
  <2> QED
    BY <1>1, <1>2, <2>1 DEF Announces
<1> QED
  BY <1>1, <1>3, <1>4 DEF p

-----------------------------------------------------------------------------
(* The handle an attribute gets *)

Chosen(s, at, n) == IF at = 0 THEN NextIn(s, n) ELSE at

LEMMA SmallRemainder ==
    ASSUME NEW m \in Nat \ {0}, NEW x \in 0 .. m - 1
    PROVE  x % m = x
OBVIOUS

LEMMA Room ==
    ASSUME NEW s, Sound(s), NEW n \in 1 .. 2, NEW at \in 0 .. MaxHandle,
           HasRoom(s, n - 1), WellPlaced(s, at, n)
    PROVE  LET a == s.attributes
               h == Chosen(s, at, n)
           IN  /\ Len(a) + n <= s.num_handles
               /\ h \in Handles /\ h <= End(s)
               /\ Start(s) + Len(a) - 1 + n <= h
               /\ \A i \in DOMAIN a : a[i].handle + n <= h
               /\ Start(s) \in Nat /\ End(s) \in Nat /\ Len(a) \in Nat
<1> DEFINE a == s.attributes
           last == a[Len(a)].handle
           h == Chosen(s, at, n)
<1>1. /\ s \in Service /\ a \in Seq(Attr) /\ Len(a) \in Nat /\ Len(a) >= 1
      /\ DOMAIN a = 1 .. Len(a) /\ s.num_handles \in Nat
      /\ MaxHandle \in Nat
  BY LenProperties, HandleAssumption DEF Sound, Service, Handles
<1>2. \A i \in DOMAIN a : a[i].handle \in Handles
  <2>1. \A i \in DOMAIN a : a[i] \in Attr
    BY <1>1, ElementOfSeq
  <2> QED
    BY <2>1 DEF Attr
<1>3. /\ Start(s) \in Nat /\ End(s) \in Nat /\ End(s) <= MaxHandle
      /\ End(s) = Start(s) + s.num_handles - 1
      /\ 1 <= Start(s) /\ last \in Nat
  BY <1>1, <1>2 DEF Sound, Start, End, Handles
<1>4. Len(a) + n <= s.num_handles
  BY <1>1 DEF HasRoom
<1>5. \A i \in DOMAIN a : i < Len(a) => a[i].handle < last
  <2>1. \A i, j \in DOMAIN a : i < j => a[i].handle < a[j].handle
    BY DEF Sound, Ascending
  <2>2. Len(a) \in DOMAIN a
    BY <1>1
  <2> QED
    BY <2>1, <2>2
<1>6. \A i \in DOMAIN a : a[i].handle <= last
  <2> SUFFICES ASSUME NEW i \in DOMAIN a PROVE a[i].handle <= last
    OBVIOUS
  <2>1. a[i].handle \in Nat /\ i \in 1 .. Len(a)
    BY <1>1, <1>2 DEF Handles
  <2>2. CASE i = Len(a)
    BY <1>3, <2>2
  <2>3. CASE i < Len(a)
    <3>1. a[i].handle < last
      BY <1>5, <2>3
    <3> QED
      BY <1>3, <2>1, <3>1
  <2> QED
    BY <1>1, <2>1, <2>2, <2>3
<1>7. last >= Start(s) + Len(a) - 1
  BY <1>1 DEF Sound, Ascending
<1>8. Last(a) = a[Len(a)]
  BY DEF Last
<1> HIDE DEF last
<1>9. last + n <= h /\ h <= End(s)
  <2>1. CASE at = 0
    <3>1. Len(a) < last - Start(s) + 1 => last + n <= End(s)
      BY <1>8, <2>1 DEF WellPlaced, last
    <3>2. last + n <= End(s)
      <4>1. CASE Len(a) < last - Start(s) + 1
        BY <3>1, <4>1
      <4>2. CASE ~(Len(a) < last - Start(s) + 1)
        <5>1. last = Start(s) + Len(a) - 1
          BY <1>1, <1>3, <1>7, <4>2, SMTT(30)
        <5> QED
          BY <1>1, <1>3, <1>4, <5>1, SMTT(30)
      <4> QED
        BY <4>1, <4>2
    <3>3. (last + n) % (MaxHandle + 1) = last + n
      <4>1. last + n \in 0 .. (MaxHandle + 1) - 1 /\ MaxHandle + 1 \in Nat \ {0}
        BY <1>1, <1>3, <3>2
      <4> QED
        BY <4>1, SmallRemainder
    <3>4. h = last + n
      BY <1>8, <2>1, <3>3 DEF Chosen, NextIn, last
    <3> QED
      BY <1>3, <3>2, <3>4
  <2>2. CASE at # 0
    BY <1>8, <2>2 DEF WellPlaced, Chosen, last
  <2> QED
    BY <2>1, <2>2
<1>10. h \in Int
  <2>1. CASE at = 0
    <3>1. last + n \in Nat
      BY <1>3
    <3>2. (last + n) % (MaxHandle + 1) \in Int
      BY <1>1, <3>1
    <3> QED
      BY <1>8, <2>1, <3>2 DEF Chosen, NextIn, last
  <2>2. CASE at # 0
    BY <2>2, HandleAssumption DEF Chosen
  <2> QED
    BY <2>1, <2>2
<1> HIDE DEF h
<1>11. h \in Handles
  BY <1>1, <1>3, <1>9, <1>10 DEF Handles
<1>12. Start(s) + Len(a) - 1 + n <= h
  BY <1>1, <1>3, <1>7, <1>9, <1>10
<1>13. ASSUME NEW i \in DOMAIN a PROVE a[i].handle + n <= h
  BY <1>2, <1>3, <1>6, <1>9, <1>10 DEF Handles
<1> QED
  BY <1>1, <1>3, <1>4, <1>9, <1>11, <1>12, <1>13 DEF h

LEMMA OneFits ==
    ASSUME NEW s, Sound(s), NEW at \in 0 .. MaxHandle, HasRoom(s, 0),
           WellPlaced(s, at, 1), NEW a \in Attr, a.handle = Chosen(s, at, 1),
           a.uuid # CHARACTERISTIC
    PROVE  Fits(s, <<a>>)
<1> DEFINE b == s.attributes
           new == <<a>>
           h == a.handle
<1>1. /\ Len(b) + 1 <= s.num_handles
      /\ h \in Handles /\ h <= End(s)
      /\ Start(s) + Len(b) - 1 + 1 <= h
      /\ \A i \in DOMAIN b : b[i].handle + 1 <= h
      /\ Start(s) \in Nat /\ End(s) \in Nat /\ Len(b) \in Nat
  BY Room
<1>2. new \in Seq(Attr) /\ Len(new) = 1 /\ DOMAIN new = 1 .. 1 /\ new[1] = a
  OBVIOUS
<1>3. \A i \in DOMAIN b : b[i].handle \in Nat
  <2>1. \A i \in DOMAIN b : b[i] \in Attr
    BY DEF Sound, Service
  <2> QED
    BY <2>1, HandleAssumption DEF Attr, Handles
<1>4. h \in Nat
  BY <1>1, HandleAssumption DEF Handles
<1> HIDE DEF new, h
<1>5. h \in Start(s) + Len(b) + 1 - 1 .. End(s)
  BY <1>1, <1>4
<1>6. \A i \in DOMAIN b : b[i].handle < h
  BY <1>1, <1>3, <1>4
<1> QED
  BY <1>1, <1>2, <1>5, <1>6 DEF Fits, new, h

LEMMA TwoFit ==
    ASSUME NEW s, Sound(s), NEW at \in 0 .. MaxHandle, HasRoom(s, 1),
           WellPlaced(s, at, 2), NEW d \in Attr, NEW a \in Attr,
           a.handle = Chosen(s, at, 2), d.handle = a.handle - 1,
           a.uuid # CHARACTERISTIC, d.value[2] = a.handle,
           AnnouncedUuid(d.value) = UuidBytes(a.uuid)
    PROVE  Fits(s, <<d, a>>)
<1> DEFINE b == s.attributes
           new == <<d, a>>
           h == a.handle
<1>1. /\ Len(b) + 2 <= s.num_handles
      /\ h \in Handles /\ h <= End(s)
      /\ Start(s) + Len(b) - 1 + 2 <= h
      /\ \A i \in DOMAIN b : b[i].handle + 2 <= h
      /\ Start(s) \in Nat /\ End(s) \in Nat /\ Len(b) \in Nat
  BY Room
<1>2. /\ new \in Seq(Attr) /\ Len(new) = 2 /\ DOMAIN new = 1 .. 2
      /\ new[1] = d /\ new[2] = a
  OBVIOUS
<1>3. \A i \in DOMAIN b : b[i].handle \in Nat
  <2>1. \A i \in DOMAIN b : b[i] \in Attr
    BY DEF Sound, Service
  <2> QED
    BY <2>1, HandleAssumption DEF Attr, Handles
<1>4. h \in Nat /\ d.handle = h - 1
  BY <1>1, HandleAssumption DEF Handles
<1> HIDE DEF new, h
<1>5. /\ h - 1 \in Start(s) + Len(b) + 1 - 1 .. End(s)
      /\ h \in Start(s) + Len(b) + 2 - 1 .. End(s)
  BY <1>1, <1>4, SMTT(30)
<1>6. \A i \in DOMAIN b : b[i].handle < h - 1 /\ b[i].handle < h
  <2>1. ASSUME NEW i \in DOMAIN b PROVE b[i].handle < h - 1 /\ b[i].handle < h
    <3>1. b[i].handle \in Nat /\ b[i].handle + 2 <= h
      BY <1>1, <1>3
    <3> QED
      BY <1>4, <3>1, SMTT(30)
  <2> QED
    BY <2>1
<1>7. h - 1 < h /\ h = (h - 1) + 1
  BY <1>4, SMTT(30)
<1>8. /\ \A j \in 1 .. 2 :
             /\ new[j].handle \in Start(s) + Len(b) + j - 1 .. End(s)
             /\ \A i \in DOMAIN b : b[i].handle < new[j].handle
      /\ \A i, j \in 1 .. 2 : i < j => new[i].handle < new[j].handle
  BY <1>2, <1>4, <1>5, <1>6, <1>7 DEF h
<1>9. \A j \in 1 .. 2 : new[j].uuid = CHARACTERISTIC =>
          /\ j + 1 \in 1 .. 2
          /\ new[j + 1].handle = new[j].value[2]
          /\ new[j].value[2] = new[j].handle + 1
          /\ AnnouncedUuid(new[j].value) = UuidBytes(new[j + 1].uuid)
  <2>1. \A j \in 1 .. 2 : new[j].uuid = CHARACTERISTIC => j = 1
    BY <1>2
  <2> QED
    BY <1>2, <1>4, <1>7, <2>1 DEF h
<1> QED
  BY <1>1, <1>2, <1>8, <1>9 DEF Fits, new

-----------------------------------------------------------------------------
(* The calls that fill a service *)

LEMMA FilledGood ==
    ASSUME NEW d, Good(d), NEW k \in DOMAIN d.services, NEW new,
           Fits(d.services[k], new),
           \A j \in DOMAIN new : new[j].uuid = INCLUDED =>
               \E l \in DOMAIN d.services :
                   new[j].value = Announced(d.services[l])
    PROVE  Good(Filled(d, k, new))
<1> DEFINE q == d.services
           s == q[k]
           t == More(s, new)
           p == [q EXCEPT ![k] = t]
           e == Filled(d, k, new)
<1>1. d \in Database /\ q \in Seq(Service) /\ Sound(s) /\ AllSound(q)
  BY DEF Good, AllSound
<1>2. /\ Sound(t) /\ Start(t) = Start(s) /\ End(t) = End(s)
      /\ Announced(t) = Announced(s)
      /\ DOMAIN t.attributes = 1 .. Len(s.attributes) + Len(new)
      /\ \A i \in 1 .. Len(s.attributes) + Len(new) :
             t.attributes[i] = IF i <= Len(s.attributes) THEN s.attributes[i]
                               ELSE new[i - Len(s.attributes)]
  BY <1>1, Extended
<1>3. e = [d EXCEPT !.services = p]
  BY DEF Filled, More
<1>4. Announces(t, q)
  <2> DEFINE b == s.attributes
             c == t.attributes
  <2>1. /\ DOMAIN b = 1 .. Len(b) /\ Len(b) \in Nat
        /\ DOMAIN new = 1 .. Len(new) /\ Len(new) \in Nat
    <3>1. b \in Seq(Attr) /\ new \in Seq(Attr)
      BY <1>1 DEF Sound, Service, Fits
    <3> QED
      BY <3>1, LenProperties
  <2>2. \A i \in DOMAIN b : b[i].uuid = INCLUDED =>
            \E l \in DOMAIN q : b[i].value = Announced(q[l])
    BY DEF Good, Announces
  <2> HIDE DEF t
  <2> SUFFICES ASSUME NEW i \in 1 .. Len(b) + Len(new),
                      c[i].uuid = INCLUDED
               PROVE  \E l \in DOMAIN q : c[i].value = Announced(q[l])
    BY <1>2 DEF Announces
  <2>3. CASE i <= Len(b)
    <3>1. i \in DOMAIN b /\ c[i] = b[i]
      BY <1>2, <2>1, <2>3
    <3> QED
      BY <2>2, <3>1
  <2>4. CASE ~(i <= Len(b))
    <3>1. i - Len(b) \in DOMAIN new /\ c[i] = new[i - Len(b)]
      BY <1>2, <2>1, <2>4
    <3> QED
      BY <3>1
  <2> QED
    BY <2>3, <2>4
<1> HIDE DEF t
<1>5. \A l \in DOMAIN q : Announces(q[l], q)
  BY DEF Good
<1>6. AllSound(p) /\ \A l \in DOMAIN q : Announces(p[l], p)
  BY <1>1, <1>2, <1>4, <1>5, Replaced
<1>7. p \in Seq(Service) /\ DOMAIN p = DOMAIN q
  BY <1>6 DEF AllSound
<1> HIDE DEF p
<1>8. e \in Database
  BY <1>1, <1>3, <1>7, Zenon DEF Database
<1>9. e.services = p
  BY <1>1, <1>3 DEF Database
<1> HIDE DEF e
<1> QED
  BY <1>6, <1>7, <1>8, <1>9 DEF Good, e

\* An attribute a caller adds comes without a value
LEMMA AddedType ==
    ASSUME NEW h \in Handles, NEW u \in UuidSet
    PROVE  LET a == Attribute(h, u, {"READ"}, << >>, "stored", "stored")
           IN  a \in Attr /\ a.handle = h /\ a.uuid = u
<1>1. << >> \in Seq(Atom)
  OBVIOUS
<1> QED
  BY <1>1 DEF Attribute, Attr

LEMMA DescriptorGood ==
    ASSUME NEW d, Good(d), NEW k \in DOMAIN d.services,
           NEW at \in 0 .. MaxHandle, NEW u \in Uuids,
           WellPlaced(d.services[k], at, 1)
    PROVE  Good(InsertDescriptor(d, k, at, u, {"READ"}, "stored", "stored"))
<1> DEFINE s == d.services[k]
           h == Chosen(s, at, 1)
           a == Attribute(h, u, {"READ"}, << >>, "stored", "stored")
<1>1. Sound(s)
  BY DEF Good, AllSound
<1>2. CASE HasRoom(s, 0)
  <2>1. h \in Handles
    BY <1>1, <1>2, Room
  <2> HIDE DEF h
  <2>2. u \in UuidSet /\ << >> \in Seq(Atom)
    BY DEF UuidSet
  <2>3. a \in Attr /\ a.handle = h /\ a.uuid = u
    BY <2>1, <2>2, AddedType
  <2>4. a.uuid # CHARACTERISTIC /\ a.uuid # INCLUDED
    BY <2>2, <2>3, UuidType
  <2> HIDE DEF a
  <2>5. Fits(s, <<a>>)
    BY <1>1, <1>2, <2>3, <2>4, OneFits DEF h
  <2>6. \A j \in DOMAIN <<a>> : <<a>>[j].uuid # INCLUDED
    BY <2>4
  <2>7. Good(Filled(d, k, <<a>>))
    BY <2>5, <2>6, FilledGood
  <2> QED
    BY <2>7 DEF InsertDescriptor, a, h, Chosen
<1>3. CASE ~HasRoom(s, 0)
  BY <1>3 DEF InsertDescriptor
<1> QED
  BY <1>2, <1>3

LEMMA RoomForTwo ==
    ASSUME NEW s, Sound(s), NEW at \in 0 .. MaxHandle, HasRoom(s, 1),
           WellPlaced(s, at, 2)
    PROVE  Chosen(s, at, 2) \in Handles /\ Chosen(s, at, 2) - 1 \in Handles
<1> DEFINE h == Chosen(s, at, 2)
<1>1. /\ h \in Handles
      /\ Start(s) + Len(s.attributes) - 1 + 2 <= h
      /\ Start(s) \in Nat /\ Len(s.attributes) \in Nat
  BY Room
<1>2. Start(s) >= 1
  <2>1. s.attributes[1] \in Attr
    BY ElementOfSeq DEF Sound, Service
  <2> QED
    BY <2>1 DEF Start, Attr, Handles
<1> HIDE DEF h
<1>3. h \in Handles /\ h - 1 \in Handles
  BY <1>1, <1>2, HandleAssumption DEF Handles
<1> QED
  BY <1>3 DEF h

LEMMA CharacteristicGood ==
    ASSUME NEW d, Good(d), NEW k \in DOMAIN d.services,
           NEW at \in 0 .. MaxHandle, NEW u \in Uuids,
           WellPlaced(d.services[k], at, 2)
    PROVE  Good(InsertCharacteristic(d, k, at, u, {"READ"}, {"READ"},
                                     "stored", "stored"))
<1> DEFINE s == d.services[k]
           h == Chosen(s, at, 2)
           v == Declared({"READ"}, h, u)
           b == Fixed(h - 1, CHARACTERISTIC, v)
           a == Attribute(h, u, {"READ"}, << >>, "stored", "stored")
<1>1. Sound(s)
  BY DEF Good, AllSound
<1>2. CASE HasRoom(s, 1)
  <2>1. h \in Handles /\ h - 1 \in Handles
    BY <1>1, <1>2, RoomForTwo
  <2> HIDE DEF h
  <2>2. u \in UuidSet /\ << >> \in Seq(Atom) /\ CHARACTERISTIC \in Reserved
    BY ReservedUuids DEF UuidSet
  <2>3. a \in Attr /\ a.handle = h /\ a.uuid = u
    BY <2>1, <2>2, AddedType
  <2>4. a.uuid # CHARACTERISTIC /\ a.uuid # INCLUDED
    BY <2>2, <2>3, UuidType
  <2>5. /\ v \in Seq(Atom) /\ v[2] = h
        /\ AnnouncedUuid(v) = UuidBytes(u)
    BY <2>1, <2>2, DeclaredType
  <2> HIDE DEF v
  <2>6. /\ b \in Attr /\ b.handle = h - 1 /\ b.uuid = CHARACTERISTIC
        /\ b.value = v
    BY <2>1, <2>2, <2>5, FixedType
  <2> HIDE DEF a, b
  <2>7. Fits(s, <<b, a>>)
    BY <1>1, <1>2, <2>3, <2>4, <2>5, <2>6, TwoFit DEF h
  <2>8. \A j \in DOMAIN <<b, a>> : <<b, a>>[j].uuid # INCLUDED
    BY <2>4, <2>6, ReservedUuids
  <2>9. Good(Filled(d, k, <<b, a>>))
    BY <2>7, <2>8, FilledGood
  <2> QED
    BY <2>9 DEF InsertCharacteristic, a, b, v, h, Chosen
<1>3. CASE ~HasRoom(s, 1)
  BY <1>3 DEF InsertCharacteristic
<1> QED
  BY <1>2, <1>3

LEMMA IncludedGood ==
    ASSUME NEW d, Good(d), NEW k \in DOMAIN d.services,
           NEW included \in DOMAIN d.services,
           NEW at \in 0 .. MaxHandle, WellPlaced(d.services[k], 0, 1)
    PROVE  Good(InsertIncluded(d, k, at, included))
<1> DEFINE s == d.services[k]
           h == Chosen(s, 0, 1)
           v == Announced(d.services[included])
           a == Fixed(h, INCLUDED, v)
<1>1. Sound(s) /\ 0 \in 0 .. MaxHandle
  BY HandleAssumption DEF Good, AllSound
<1>2. CASE HasRoom(s, 0)
  <2>1. h \in Handles
    BY <1>1, <1>2, Room
  <2>0. h = NextIn(s, 1)
    BY DEF Chosen
  <2> HIDE DEF h
  <2>2. v \in Seq(Atom)
    <3> DEFINE i == d.services[included]
               w == i.attributes[1].value
    <3>1. Sound(i)
      BY DEF Good, AllSound
    <3>2. i.attributes[1] \in Attr
      BY <3>1, ElementOfSeq DEF Sound, Service
    <3>3. w \in Seq(Atom) /\ Start(i) \in Nat /\ End(i) \in Nat
      BY <3>1, <3>2, HandleAssumption DEF Attr, Start, Sound, Handles
    <3> HIDE DEF w
    <3>4. <<Start(i), End(i)>> \in Seq(Atom)
      BY <3>3 DEF Atom
    <3>5. (IF Len(w) = 2 THEN w ELSE << >>) \in Seq(Atom)
      BY <3>3
    <3> QED
      BY <3>4, <3>5 DEF Announced, w
  <2>3. INCLUDED \in Reserved
    BY ReservedUuids
  <2> HIDE DEF v
  <2>4. a \in Attr /\ a.handle = h /\ a.uuid = INCLUDED /\ a.value = v
    BY <2>1, <2>2, <2>3, FixedType
  <2> HIDE DEF a
  <2>5. Fits(s, <<a>>)
    BY <1>1, <1>2, <2>4, OneFits, ReservedUuids DEF h
  <2>6. \A j \in DOMAIN <<a>> : <<a>>[j].value = v
    BY <2>4
  <2>7. Good(Filled(d, k, <<a>>))
    BY <2>5, <2>6, FilledGood DEF v
  <2> QED
    BY <2>0, <2>7 DEF InsertIncluded, a, v, Announced
<1>3. CASE ~HasRoom(s, 0)
  BY <1>3 DEF InsertIncluded
<1> QED
  BY <1>2, <1>3

-----------------------------------------------------------------------------
(* A new service *)

LEMMA ServiceNumbers ==
    ASSUME NEW s, Sound(s)
    PROVE  /\ Start(s) \in Nat /\ End(s) \in Nat
           /\ 1 <= Start(s) /\ Start(s) <= End(s) /\ End(s) <= MaxHandle
<1>1. s.attributes[1] \in Attr /\ s.num_handles \in Handles
  BY ElementOfSeq DEF Sound, Service
<1> QED
  BY <1>1, HandleAssumption DEF Sound, Start, End, Attr, Handles

LEMMA NewServiceSound ==
    ASSUME NEW handle \in 1 .. MaxHandle, NEW primary \in BOOLEAN,
           NEW u \in Uuids, NEW num \in Nat, num >= 1,
           handle + num - 1 <= MaxHandle
    PROVE  LET s == NewService(handle, primary, u, num)
           IN  /\ Sound(s) /\ Start(s) = handle /\ End(s) = handle + num - 1
               /\ \A q : Announces(s, q)
<1> DEFINE s == NewService(handle, primary, u, num)
           type == IF primary THEN PRIMARY ELSE SECONDARY
           a == Fixed(handle, type, UuidBytes(u))
<1>1. type \in Reserved /\ type # CHARACTERISTIC /\ type # INCLUDED
  BY ReservedUuids
<1>2. UuidBytes(u) \in Seq(Atom) /\ handle \in Handles
  BY UuidType DEF UuidSet, Handles
<1>3. s = [active |-> FALSE, num_handles |-> num, attributes |-> <<a>>]
  BY DEF NewService
<1> HIDE DEF type
<1>4. a \in Attr /\ a.handle = handle /\ a.uuid = type
  BY <1>1, <1>2, FixedType
<1>5. num \in Handles
  BY HandleAssumption DEF Handles
<1> HIDE DEF a, s
<1>6. /\ <<a>> \in Seq(Attr) /\ Len(<<a>>) = 1 /\ DOMAIN <<a>> = {1}
      /\ <<a>>[1] = a
  BY <1>4
<1>7. /\ s \in Service /\ s.num_handles = num /\ s.attributes = <<a>>
  BY <1>3, <1>5, <1>6 DEF Service
<1>8. Start(s) = handle /\ End(s) = handle + num - 1
  BY <1>4, <1>6, <1>7 DEF Start, End
<1>9. End(s) \in Handles /\ handle \in handle + 1 - 1 .. End(s)
  BY <1>5, <1>8, HandleAssumption DEF Handles
<1>10. Ascending(s)
  BY <1>4, <1>6, <1>7, <1>8, <1>9 DEF Ascending
<1>11. Follows(s)
  BY <1>1, <1>4, <1>6, <1>7 DEF Follows
<1>12. \A q : Announces(s, q)
  BY <1>1, <1>4, <1>6, <1>7 DEF Announces
<1>13. Sound(s)
  BY <1>5, <1>6, <1>7, <1>9, <1>10, <1>11 DEF Sound
<1> QED
  BY <1>8, <1>12, <1>13 DEF s

\* find_insert_loc: what comes before the place lies before the range, what
\* comes after it behind
LEMMA LocationSplits ==
    ASSUME NEW d, AllSound(d.services), NEW start \in Nat, NEW end \in Nat,
           ~Encloses(d, start, end),
           LET k == Location(d, start, end)
           IN  ~(k \in DOMAIN d.services /\ Overlaps(d.services[k], start, end))
    PROVE  LET k == Location(d, start, end)
               q == d.services
           IN  /\ k \in 1 .. Len(q) + 1
               /\ \A l \in DOMAIN q : IF l < k THEN End(q[l]) < start
                                      ELSE end < Start(q[l])
<1> DEFINE q == d.services
           T == {l \in DOMAIN q : Overlaps(q[l], start, end) \/ end < Start(q[l])}
                    \cup {Len(q) + 1}
           k == Location(d, start, end)
<1>1. /\ q \in Seq(Service) /\ Len(q) \in Nat /\ DOMAIN q = 1 .. Len(q)
      /\ Apart(q) /\ \A l \in DOMAIN q : Sound(q[l])
  BY LenProperties DEF AllSound
<1>2. \A l \in DOMAIN q : /\ Start(q[l]) \in Nat /\ End(q[l]) \in Nat
                          /\ Start(q[l]) <= End(q[l])
  BY <1>1, ServiceNumbers
<1>3. k \in T /\ \A l \in T : k <= l
  <2>1. T \subseteq Nat /\ T # {}
    BY <1>1
  <2>2. k = Min(T)
    BY DEF Location
  <2> HIDE DEF T, k
  <2> QED
    BY <2>1, <2>2, MinIsLeast
<1>4. k \in 1 .. Len(q) + 1
  BY <1>1, <1>3
<1> HIDE DEF k
<1>5. ASSUME NEW l \in DOMAIN q, l < k PROVE End(q[l]) < start
  <2>1. l \notin T
    BY <1>1, <1>3, <1>4, <1>5
  <2>2. ~Overlaps(q[l], start, end) /\ ~(end < Start(q[l]))
    BY <2>1
  <2>3. ~(start < Start(q[l]) /\ End(q[l]) < end)
    BY DEF Encloses
  <2> QED
    BY <1>2, <2>2, <2>3 DEF Overlaps
<1>6. ASSUME NEW l \in DOMAIN q, ~(l < k) PROVE end < Start(q[l])
  <2>1. k \in DOMAIN q
    BY <1>1, <1>4, <1>6
  <2>2. ~Overlaps(q[k], start, end)
    BY <2>1 DEF k
  <2>3. k # Len(q) + 1
    BY <1>1, <2>1
  <2>4. end < Start(q[k])
    BY <1>3, <2>2, <2>3
  <2>5. CASE l = k
    BY <2>4, <2>5
  <2>6. CASE k < l
    <3>1. End(q[k]) < Start(q[l])
      BY <1>1, <2>1, <2>6 DEF Apart
    <3> QED
      BY <1>2, <2>1, <2>4, <3>1
  <2> QED
    BY <1>1, <1>4, <1>6, <2>5, <2>6
<1> QED
  BY <1>4, <1>5, <1>6 DEF k

LEMMA ServiceInserted ==
    ASSUME NEW q, AllSound(q), \A l \in DOMAIN q : Announces(q[l], q),
           NEW s, Sound(s), \A p : Announces(s, p),
           NEW k \in 1 .. Len(q) + 1,
           \A l \in DOMAIN q : IF l < k THEN End(q[l]) < Start(s)
                               ELSE End(s) < Start(q[l])
    PROVE  LET p == InsertAt(q, k, s)
           IN  AllSound(p) /\ \A l \in DOMAIN p : Announces(p[l], p)
<1> DEFINE p == InsertAt(q, k, s)
           m == Len(q) + 1
<1>1. /\ q \in Seq(Service) /\ Len(q) \in Nat /\ DOMAIN q = 1 .. Len(q)
      /\ s \in Service
  BY LenProperties DEF AllSound, Sound
<1>2. /\ p \in Seq(Service) /\ Len(p) = m
      /\ \A i \in 1 .. m : p[i] = IF i < k THEN q[i]
                                  ELSE IF i = k THEN s ELSE q[i - 1]
  <2>1. k \in 1 .. Len(q) + 1
    OBVIOUS
  <2>2. p \in Seq(Service)
    BY <1>1, <2>1, InsertAtElements
  <2>3. Len(p) = m
    BY <1>1, <2>1, InsertAtElements
  <2>4. \A i \in 1 .. m : p[i] = IF i < k THEN q[i]
                               ELSE IF i = k THEN s ELSE q[i - 1]
    BY <1>1, <2>1, InsertAtElements
  <2> QED
    BY <2>2, <2>3, <2>4
<1> HIDE DEF p
<1>3. DOMAIN p = 1 .. m
  BY <1>2, LenProperties
<1>4. ASSUME NEW i \in 1 .. m
      PROVE  \/ i < k /\ i \in DOMAIN q /\ p[i] = q[i]
             \/ i = k /\ p[i] = s
             \/ i > k /\ i - 1 \in DOMAIN q /\ p[i] = q[i - 1]
  BY <1>1, <1>2
<1>5. \A i \in 1 .. m : Sound(p[i])
  BY <1>4 DEF AllSound
<1>6. ASSUME NEW i \in 1 .. m, NEW j \in 1 .. m, i < j
      PROVE  End(p[i]) < Start(p[j])
  <2>0. \A x, y \in DOMAIN q : x < y => End(q[x]) < Start(q[y])
    BY DEF AllSound, Apart
  <2>1. CASE i < k /\ p[i] = q[i] /\ i \in DOMAIN q
    <3>1. CASE j < k /\ j \in DOMAIN q /\ p[j] = q[j]
      BY <1>6, <2>0, <2>1, <3>1
    <3>2. CASE j = k /\ p[j] = s
      BY <2>1, <3>2
    <3>3. CASE j > k /\ j - 1 \in DOMAIN q /\ p[j] = q[j - 1]
      <4>1. i < j - 1
        BY <1>1, <2>1, <3>3
      <4> QED
        BY <2>0, <2>1, <3>3, <4>1
    <3> QED
      BY <1>4, <3>1, <3>2, <3>3
  <2>2. CASE i = k /\ p[i] = s
    <3>1. j - 1 \in DOMAIN q /\ p[j] = q[j - 1] /\ ~(j - 1 < k)
      BY <1>1, <1>4, <1>6, <2>2
    <3> QED
      BY <2>2, <3>1
  <2>3. CASE i > k /\ i - 1 \in DOMAIN q /\ p[i] = q[i - 1]
    <3>1. j - 1 \in DOMAIN q /\ p[j] = q[j - 1] /\ i - 1 < j - 1
      BY <1>1, <1>4, <1>6, <2>3
    <3> QED
      BY <2>0, <2>3, <3>1
  <2> QED
    BY <1>4, <2>1, <2>2, <2>3
<1>7. AllSound(p)
  BY <1>2, <1>3, <1>5, <1>6 DEF AllSound, Apart
<1>8. ASSUME NEW x \in DOMAIN q PROVE \E y \in 1 .. m : p[y] = q[x]
  <2>1. CASE x < k
    BY <1>1, <1>2, <2>1
  <2>2. CASE ~(x < k)
    <3>1. /\ x + 1 \in 1 .. m /\ ~(x + 1 < k) /\ x + 1 # k
          /\ (x + 1) - 1 = x
      BY <1>1, <2>2
    <3>2. p[x + 1] = q[(x + 1) - 1]
      BY <1>2, <3>1
    <3> QED
      BY <3>1, <3>2
  <2> QED
    BY <2>1, <2>2
<1>9. ASSUME NEW x \in DOMAIN q PROVE Announces(q[x], p)
  <2>1. Announces(q[x], q)
    OBVIOUS
  <2> QED
    BY <1>3, <1>8, <2>1 DEF Announces
<1>10. ASSUME NEW i \in 1 .. m PROVE Announces(p[i], p)
  BY <1>4, <1>9
<1> QED
  BY <1>3, <1>7, <1>10 DEF p

LEMMA InsertServiceGood ==
    ASSUME NEW d, Good(d), NEW handle \in 0 .. MaxHandle,
           NEW primary \in BOOLEAN, NEW u \in Uuids, NEW num \in Nat,
           ~Encloses(d, handle, handle + num - 1)
    PROVE  Good(InsertService(d, handle, primary, u, num))
<1> DEFINE end == handle + num - 1
           k == Location(d, handle, end)
           q == d.services
           s == NewService(handle, primary, u, num)
           p == InsertAt(q, k, s)
           n == Max({handle + num, d.next_handle}) % (MaxHandle + 1)
           taken == k \in DOMAIN q /\ Overlaps(q[k], handle, end)
<1>0. CASE handle < 1 \/ num < 1 \/ end > MaxHandle \/ taken
  BY <1>0 DEF InsertService
<1>1. CASE ~(handle < 1 \/ num < 1 \/ end > MaxHandle \/ taken)
  <2>1. InsertService(d, handle, primary, u, num)
            = [services |-> p, next_handle |-> n]
    BY <1>1 DEF InsertService
  <2>2. /\ end \in Nat /\ handle \in Nat /\ num >= 1 /\ end <= MaxHandle
        /\ handle \in 1 .. MaxHandle
    BY <1>1, HandleAssumption
  <2>3. n \in 0 .. MaxHandle
    <3> DEFINE x == handle + num
               y == d.next_handle
    <3>1. x \in Nat /\ y \in Nat
      BY HandleAssumption DEF Good, Database
    <3> HIDE DEF x, y
    <3>2. Max({x, y}) \in {x, y}
      <4>1. \E z \in {x, y} : \A w \in {x, y} : z >= w
        BY <3>1
      <4> QED
        BY <4>1 DEF Max
    <3>3. Max({x, y}) \in Nat /\ MaxHandle + 1 \in Nat \ {0}
      BY <3>1, <3>2, HandleAssumption
    <3> HIDE DEF Max
    <3>4. Max({x, y}) % (MaxHandle + 1) \in 0 .. (MaxHandle + 1) - 1
      BY <3>3
    <3> QED
      BY <3>4, HandleAssumption DEF x, y
  <2>4. /\ Sound(s) /\ Start(s) = handle /\ End(s) = end
        /\ \A r : Announces(s, r)
    BY <2>2, NewServiceSound
  <2>5. /\ k \in 1 .. Len(q) + 1
        /\ \A l \in DOMAIN q : IF l < k THEN End(q[l]) < handle
                               ELSE end < Start(q[l])
    BY <1>1, <2>2, LocationSplits DEF Good
  <2> HIDE DEF s, k, n, end
  <2>6. AllSound(p) /\ \A l \in DOMAIN p : Announces(p[l], p)
    BY <2>4, <2>5, ServiceInserted DEF Good
  <2> HIDE DEF p
  <2>7. [services |-> p, next_handle |-> n] \in Database
    BY <2>3, <2>6 DEF Database, AllSound
  <2> QED
    BY <2>1, <2>6, <2>7 DEF Good
<1> QED
  BY <1>0, <1>1

-----------------------------------------------------------------------------
(* Services that go *)

LEMMA Remaining ==
    ASSUME NEW d, Good(d), NEW p \in Seq(Service), Apart(p),
           \A i \in DOMAIN p : \E x \in DOMAIN d.services :
               p[i] = d.services[x],
           \A l \in DOMAIN d.services :
               Included(d, l) => \E j \in DOMAIN p : p[j] = d.services[l]
    PROVE  AllSound(p) /\ \A i \in DOMAIN p : Announces(p[i], p)
<1> DEFINE q == d.services
<1>1. AllSound(q) /\ \A x \in DOMAIN q : Sound(q[x]) /\ Announces(q[x], q)
  BY DEF Good, AllSound
<1>2. AllSound(p)
  BY <1>1 DEF AllSound
<1>3. ASSUME NEW i \in DOMAIN p PROVE Announces(p[i], p)
  <2> DEFINE b == p[i].attributes
  <2> SUFFICES ASSUME NEW j \in DOMAIN b, b[j].uuid = INCLUDED
               PROVE  \E m \in DOMAIN p : b[j].value = Announced(p[m])
    BY DEF Announces
  <2>1. PICK x \in DOMAIN q : p[i] = q[x]
    OBVIOUS
  <2>2. PICK l \in DOMAIN q : b[j].value = Announced(q[l])
    BY <1>1, <2>1 DEF Announces
  <2>3. CASE \E m \in DOMAIN p : p[m] = q[l]
    BY <2>2, <2>3
  <2>4. CASE ~\E m \in DOMAIN p : p[m] = q[l]
    <3>1. b[j].value[1] = Start(q[l])
      <4> DEFINE s == q[l]
                 u == s.attributes[1].value
                 w == IF Len(u) = 2 THEN u ELSE << >>
      <4>1. s.attributes[1] \in Attr /\ Start(s) \in Nat /\ End(s) \in Nat
        BY <1>1, ElementOfSeq, ServiceNumbers DEF Sound, Service
      <4>2. w \in Seq(Atom)
        BY <4>1 DEF Attr
      <4>3. Announced(s) = <<Start(s), End(s)>> \o w
        BY DEF Announced
      <4> HIDE DEF w, s
      <4>4. /\ <<Start(s), End(s)>> \in Seq(Atom)
            /\ Len(<<Start(s), End(s)>>) = 2
        BY <4>1 DEF Atom
      <4>5. (<<Start(s), End(s)>> \o w)[1] = Start(s)
        BY <4>2, <4>4, ConcatProperties, LenProperties
      <4> QED
        BY <2>2, <4>3, <4>5 DEF s
    <3>2. p[i] \in ToSet(q) \ {q[l]}
      BY <2>1, <2>4 DEF ToSet
    <3>3. b[j] \in ToSet(p[i].attributes)
      BY DEF ToSet
    <3>4. Included(d, l)
      BY <3>1, <3>2, <3>3 DEF Included
    <3> QED
      BY <2>4, <3>4
  <2> QED
    BY <2>3, <2>4
<1> QED
  BY <1>2, <1>3

LEMMA RemoveServiceGood ==
    ASSUME NEW d, Good(d), NEW k \in DOMAIN d.services, ~Included(d, k)
    PROVE  Good(RemoveService(d, k))
<1> DEFINE q == d.services
           p == RemoveAt(q, k)
           n == Len(q)
<1>1. /\ d \in Database /\ q \in Seq(Service) /\ Apart(q)
      /\ DOMAIN q = 1 .. n /\ n \in Nat /\ k \in 1 .. n
  BY LenProperties DEF Good, AllSound
<1>2. /\ p \in Seq(Service) /\ DOMAIN p = 1 .. n - 1
      /\ \A i \in 1 .. n - 1 : p[i] = IF i < k THEN q[i] ELSE q[i + 1]
  BY <1>1, RemoveAtElements
<1> HIDE DEF p
<1>3. ASSUME NEW i \in 1 .. n - 1
      PROVE  \/ i < k /\ i \in DOMAIN q /\ p[i] = q[i]
             \/ ~(i < k) /\ i + 1 \in DOMAIN q /\ p[i] = q[i + 1]
  BY <1>1, <1>2
<1>4. ASSUME NEW i \in 1 .. n - 1, NEW j \in 1 .. n - 1, i < j
      PROVE  End(p[i]) < Start(p[j])
  <2>1. CASE i < k /\ i \in DOMAIN q /\ p[i] = q[i]
    <3>1. CASE j < k /\ j \in DOMAIN q /\ p[j] = q[j]
      BY <1>1, <1>4, <2>1, <3>1 DEF Apart
    <3>2. CASE j + 1 \in DOMAIN q /\ p[j] = q[j + 1]
      <4>1. i < j + 1
        BY <1>1, <1>4
      <4> QED
        BY <1>1, <2>1, <3>2, <4>1 DEF Apart
    <3> QED
      BY <1>3, <3>1, <3>2
  <2>2. CASE ~(i < k) /\ i + 1 \in DOMAIN q /\ p[i] = q[i + 1]
    <3>1. i + 1 < j + 1 /\ j + 1 \in DOMAIN q /\ p[j] = q[j + 1]
      BY <1>1, <1>3, <1>4, <2>2
    <3> QED
      BY <1>1, <2>2, <3>1 DEF Apart
  <2> QED
    BY <1>3, <2>1, <2>2
<1>5. Apart(p)
  BY <1>2, <1>4 DEF Apart
<1>6. \A i \in DOMAIN p : \E x \in DOMAIN q : p[i] = q[x]
  BY <1>2, <1>3
<1>7. ASSUME NEW l \in DOMAIN q, l # k PROVE \E j \in DOMAIN p : p[j] = q[l]
  <2>1. CASE l < k
    BY <1>1, <1>2, <2>1
  <2>2. CASE l > k
    <3>1. l - 1 \in 1 .. n - 1 /\ ~(l - 1 < k) /\ (l - 1) + 1 = l
      BY <1>1, <2>2
    <3>2. p[l - 1] = q[(l - 1) + 1]
      BY <1>2, <3>1
    <3> QED
      BY <1>2, <3>1, <3>2
  <2> QED
    BY <1>1, <1>7, <2>1, <2>2
<1>8. AllSound(p) /\ \A i \in DOMAIN p : Announces(p[i], p)
  BY <1>2, <1>5, <1>6, <1>7, Remaining
<1>9. RemoveService(d, k) = [d EXCEPT !.services = p]
  BY DEF RemoveService, p
<1>10. [d EXCEPT !.services = p] \in Database
  BY <1>1, <1>2, Zenon DEF Database
<1>11. [d EXCEPT !.services = p].services = p
  BY <1>1 DEF Database
<1> QED
  BY <1>8, <1>9, <1>10, <1>11 DEF Good

\* The recursion of queue_remove_all has a solution: by induction over the
\* number of services gone through
Left(f, q, n, start, end) ==
    f = [i \in 0 .. n |->
             IF i = 0 THEN << >>
             ELSE IF Start(q[i]) > end \/ End(q[i]) < start
                  THEN Append(f[i - 1], q[i])
                  ELSE f[i - 1]]

LEMMA LeftExists ==
    ASSUME NEW q, NEW n \in Nat, NEW start, NEW end
    PROVE  \E f : Left(f, q, n, start, end)
<1> DEFINE T == {m \in 0 .. n : \E f : Left(f, q, m, start, end)}
<1>1. 0 \in T
  <2> DEFINE f == [i \in 0 .. 0 |-> << >>]
  <2>1. Left(f, q, 0, start, end)
    BY DEF Left
  <2> QED
    BY <2>1
<1>2. ASSUME NEW m \in 0 .. n - 1, m \in T PROVE m + 1 \in T
  <2>1. PICK f : Left(f, q, m, start, end)
    BY <1>2
  <2> DEFINE step(g, i) == IF i = 0 THEN << >>
                           ELSE IF Start(q[i]) > end \/ End(q[i]) < start
                                THEN Append(g[i - 1], q[i])
                                ELSE g[i - 1]
             g == [i \in 0 .. m + 1 |-> step(f, i)]
  <2>2. f = [i \in 0 .. m |-> step(f, i)]
    BY <2>1 DEF Left
  <2>3. \A i \in 0 .. m : g[i] = f[i]
    <3> HIDE DEF step
    <3>1. \A i \in 0 .. m : f[i] = step(f, i)
      BY <2>2
    <3> QED
      BY <3>1
  <2>4. \A i \in 0 .. m + 1 : step(g, i) = step(f, i)
    <3> HIDE DEF g
    <3>1. \A i \in 0 .. m + 1 : i # 0 => g[i - 1] = f[i - 1]
      BY <2>3
    <3> QED
      BY <3>1
  <2>5. g = [i \in 0 .. m + 1 |-> step(g, i)]
    <3>1. \A i \in 0 .. m + 1 : step(f, i) = step(g, i)
      BY <2>4
    <3> HIDE DEF step
    <3>2. g = [i \in 0 .. m + 1 |-> step(f, i)]
      BY DEF g
    <3> HIDE DEF g
    <3> QED
      BY <3>1, <3>2
  <2>6. Left(g, q, m + 1, start, end)
    BY <2>5 DEF Left
  <2> HIDE DEF g
  <2> QED
    BY <2>6
<1> HIDE DEF T
<1>3. 0 .. n \subseteq T
  BY <1>1, <1>2, Counting
<1>4. n \in T
  BY <1>3
<1> QED
  BY <1>4 DEF T

LEMMA OutsideLeft ==
    ASSUME NEW q \in Seq(Service), NEW start, NEW end
    PROVE  \E f : Left(f, q, Len(q), start, end)
                  /\ Outside(q, start, end) = f[Len(q)]
<1> DEFINE f == CHOOSE g : Left(g, q, Len(q), start, end)
<1>1. Left(f, q, Len(q), start, end)
  BY LeftExists, LenProperties
<1>2. Outside(q, start, end) = f[Len(q)]
  BY DEF Outside, Left
<1> QED
  BY <1>1, <1>2

LEMMA OutsideElements ==
    ASSUME NEW q \in Seq(Service), Apart(q), NEW start, NEW end
    PROVE  LET p == Outside(q, start, end)
           IN  /\ p \in Seq(Service) /\ Apart(p)
               /\ \A i \in DOMAIN p : \E x \in DOMAIN q : p[i] = q[x]
<1> DEFINE n == Len(q)
<1>1. PICK f : Left(f, q, n, start, end) /\ Outside(q, start, end) = f[n]
  BY OutsideLeft
<1>2. n \in Nat /\ DOMAIN q = 1 .. n
  BY LenProperties
<1> DEFINE from(p, m) == \A i \in DOMAIN p : \E x \in 1 .. m : p[i] = q[x]
           T == {m \in 0 .. n : f[m] \in Seq(Service) /\ Apart(f[m])
                                    /\ from(f[m], m)}
<1>3. /\ f[0] = << >>
      /\ \A i \in 1 .. n : f[i] = Append(f[i - 1], q[i]) \/ f[i] = f[i - 1]
  <2>1. \A i \in 0 .. n :
            f[i] = IF i = 0 THEN << >>
                   ELSE IF Start(q[i]) > end \/ End(q[i]) < start
                        THEN Append(f[i - 1], q[i])
                        ELSE f[i - 1]
    BY <1>1 DEF Left
  <2>2. 0 \in 0 .. n /\ \A i \in 1 .. n : i \in 0 .. n /\ i # 0
    BY <1>2
  <2> QED
    BY <2>1, <2>2
<1>4. 0 \in T
  <2>1. f[0] \in Seq(Service) /\ Apart(f[0]) /\ from(f[0], 0)
    BY <1>3 DEF Apart
  <2> QED
    BY <1>2, <2>1
<1>5. ASSUME NEW m \in 0 .. n - 1, m \in T PROVE m + 1 \in T
  <2> DEFINE p == f[m]
             s == q[m + 1]
             a == Append(p, s)
  <2>1. /\ p \in Seq(Service) /\ Apart(p) /\ from(p, m)
        /\ m + 1 \in 1 .. n /\ m \in Nat /\ (m + 1) - 1 = m
    BY <1>2, <1>5
  <2>2. f[m + 1] = a \/ f[m + 1] = p
    <3>1. \/ f[m + 1] = Append(f[(m + 1) - 1], q[m + 1])
          \/ f[m + 1] = f[(m + 1) - 1]
      BY <1>3, <2>1
    <3> QED
      BY <2>1, <3>1
  <2>3. s \in Service
    BY <1>2, <2>1, ElementOfSeq
  <2> HIDE DEF p, s
  <2>4. /\ a \in Seq(Service) /\ DOMAIN a = 1 .. Len(p) + 1
        /\ Len(p) \in Nat /\ DOMAIN p = 1 .. Len(p)
        /\ a[Len(p) + 1] = s /\ \A i \in 1 .. Len(p) : a[i] = p[i]
    BY <2>1, <2>3, AppendProperties, LenProperties
  <2>5. ASSUME NEW i \in DOMAIN p PROVE End(p[i]) < Start(s)
    <3>1. PICK x \in 1 .. m : p[i] = q[x]
      BY <2>1
    <3>2. x \in DOMAIN q /\ m + 1 \in DOMAIN q /\ x < m + 1
      BY <1>2, <2>1
    <3> QED
      BY <3>1, <3>2 DEF Apart, s
  <2> HIDE DEF a
  <2>6. Apart(a)
    <3> SUFFICES ASSUME NEW i \in 1 .. Len(p) + 1, NEW j \in 1 .. Len(p) + 1,
                        i < j
                 PROVE  End(a[i]) < Start(a[j])
      BY <2>4 DEF Apart
    <3>1. i \in DOMAIN p /\ a[i] = p[i]
      BY <2>4
    <3>2. CASE j = Len(p) + 1
      BY <2>4, <2>5, <3>1, <3>2
    <3>3. CASE j \in DOMAIN p
      BY <2>1, <2>4, <3>1, <3>3 DEF Apart
    <3> QED
      BY <2>4, <3>2, <3>3
  <2>7. from(a, m + 1)
    <3> SUFFICES ASSUME NEW i \in 1 .. Len(p) + 1
                 PROVE  \E x \in 1 .. m + 1 : a[i] = q[x]
      BY <2>4
    <3>1. CASE i = Len(p) + 1
      <4>1. m + 1 \in 1 .. m + 1
        BY <2>1
      <4> QED
        BY <2>4, <3>1, <4>1 DEF s
    <3>2. CASE i \in DOMAIN p
      <4>1. PICK x \in 1 .. m : p[i] = q[x]
        BY <2>1, <3>2
      <4>2. x \in 1 .. m + 1
        BY <2>1
      <4> QED
        BY <2>4, <3>2, <4>1, <4>2
    <3> QED
      BY <2>4, <3>1, <3>2
  <2>8. from(p, m + 1)
    <3>1. \A x \in 1 .. m : x \in 1 .. m + 1
      BY <2>1
    <3> QED
      BY <2>1, <3>1
  <2>9. m + 1 \in 0 .. n
    BY <1>2, <2>1
  <2> HIDE DEF from
  <2> QED
    BY <2>1, <2>2, <2>4, <2>6, <2>7, <2>8, <2>9
<1> HIDE DEF T
<1>6. 0 .. n \subseteq T
  BY <1>2, <1>4, <1>5, Counting
<1>7. n \in T
  BY <1>2, <1>6
<1> QED
  BY <1>1, <1>2, <1>7 DEF T

LEMMA ClearRangeGood ==
    ASSUME NEW d, Good(d), NEW start, NEW end,
           \A k \in DOMAIN d.services : ~Included(d, k)
    PROVE  Good(ClearRange(d, start, end))
<1> DEFINE q == d.services
           p == Outside(q, start, end)
           n == IF p = << >> THEN 0 ELSE d.next_handle
<1>1. d \in Database /\ q \in Seq(Service) /\ Apart(q)
  BY DEF Good, AllSound
<1>2. /\ p \in Seq(Service) /\ Apart(p)
      /\ \A i \in DOMAIN p : \E x \in DOMAIN q : p[i] = q[x]
  BY <1>1, OutsideElements
<1>3. CASE start > end
  BY <1>3 DEF ClearRange
<1>4. CASE ~(start > end)
  <2>1. ClearRange(d, start, end) = [services |-> p, next_handle |-> n]
    BY <1>4 DEF ClearRange
  <2>2. n \in 0 .. MaxHandle
    BY <1>1, HandleAssumption DEF Database
  <2> HIDE DEF p, n
  <2>3. AllSound(p) /\ \A i \in DOMAIN p : Announces(p[i], p)
    BY <1>2, Remaining
  <2>4. [services |-> p, next_handle |-> n] \in Database
    BY <1>2, <2>2 DEF Database
  <2> QED
    BY <2>1, <2>3, <2>4 DEF Good
<1> QED
  BY <1>3, <1>4

LEMMA SetActiveGood ==
    ASSUME NEW d, Good(d), NEW k \in DOMAIN d.services, NEW active \in BOOLEAN
    PROVE  Good(SetActive(d, k, active))
<1> DEFINE q == d.services
           s == q[k]
           t == [s EXCEPT !.active = active]
           p == [q EXCEPT ![k] = t]
<1>1. d \in Database /\ AllSound(q) /\ Sound(s) /\ Announces(s, q)
  BY DEF Good, AllSound
<1>2. t \in Service
  BY <1>1, Zenon DEF Sound, Service
<1>3. t.attributes = s.attributes /\ t.num_handles = s.num_handles
  BY <1>1 DEF Sound, Service
<1>4. SetActive(d, k, active) = [d EXCEPT !.services = p]
  BY DEF SetActive
<1> HIDE DEF t
<1>5. Start(t) = Start(s) /\ End(t) = End(s) /\ Announced(t) = Announced(s)
  BY <1>3 DEF Start, End, Announced
<1>6. Sound(t)
  BY <1>1, <1>2, <1>3, <1>5 DEF Sound, Ascending, Follows
<1>7. Announces(t, q)
  BY <1>1, <1>3 DEF Announces
<1>8. \A l \in DOMAIN q : Announces(q[l], q)
  BY DEF Good
<1>9. AllSound(p) /\ \A l \in DOMAIN q : Announces(p[l], p)
  BY <1>1, <1>5, <1>6, <1>7, <1>8, Replaced
<1>10. DOMAIN p = DOMAIN q
  OBVIOUS
<1> HIDE DEF p
<1>11. [d EXCEPT !.services = p] \in Database
  BY <1>1, <1>9, Zenon DEF Database, AllSound
<1>12. [d EXCEPT !.services = p].services = p
  BY <1>1 DEF Database
<1> QED
  BY <1>4, <1>9, <1>10, <1>11, <1>12 DEF Good

-----------------------------------------------------------------------------
(* Any sequence of calls *)

DbInv == Good(db)

LEMMA InitGood == Init => DbInv
<1> SUFFICES ASSUME Init PROVE DbInv
  OBVIOUS
<1>1. /\ db.services = << >> /\ db.next_handle = 1
      /\ db = [services |-> << >>, next_handle |-> 1]
  BY DEF Init, NewDb
<1>2. << >> \in Seq(Service) /\ DOMAIN << >> = {}
  OBVIOUS
<1>3. db \in Database
  BY <1>1, <1>2, HandleAssumption DEF Database
<1> QED
  BY <1>1, <1>2, <1>3 DEF DbInv, Good, AllSound, Apart

LEMMA NextGood == DbInv /\ [Next]_db => DbInv'
<1> SUFFICES ASSUME Good(db), [Next]_db PROVE Good(db')
  BY DEF DbInv, Good
<1>0. /\ db.next_handle \in 0 .. MaxHandle
      /\ {db.next_handle} \cup Places \subseteq 0 .. MaxHandle
      /\ {0} \cup Places \subseteq 0 .. MaxHandle
  <2>1. Places \subseteq 0 .. MaxHandle /\ 0 \in 0 .. MaxHandle
    BY HandleAssumption
  <2>2. db.next_handle \in 0 .. MaxHandle
    BY DEF Good, Database
  <2> QED
    BY <2>1, <2>2
<1>1. CASE CallInsertService
  <2>1. PICK handle \in {db.next_handle} \cup Places, primary \in BOOLEAN,
             u \in Uuids, num \in 0 .. MaxNum :
            /\ ~Encloses(db, handle, handle + num - 1)
            /\ db' = InsertService(db, handle, primary, u, num)
    BY <1>1 DEF CallInsertService
  <2>2. handle \in 0 .. MaxHandle /\ num \in Nat
    BY <1>0, <2>1
  <2> QED
    BY <2>1, <2>2, InsertServiceGood
<1>2. CASE CallInsertCharacteristic
  <2>1. PICK k \in DOMAIN db.services, at \in {0} \cup Places, u \in Uuids :
            /\ WellPlaced(db.services[k], at, 2)
            /\ db' = InsertCharacteristic(db, k, at, u, {"READ"}, {"READ"},
                                          "stored", "stored")
    BY <1>2 DEF CallInsertCharacteristic
  <2>2. at \in 0 .. MaxHandle
    BY <1>0, <2>1
  <2> QED
    BY <2>1, <2>2, CharacteristicGood
<1>3. CASE CallInsertDescriptor
  <2>1. PICK k \in DOMAIN db.services, at \in {0} \cup Places, u \in Uuids :
            /\ WellPlaced(db.services[k], at, 1)
            /\ db' = InsertDescriptor(db, k, at, u, {"READ"},
                                      "stored", "stored")
    BY <1>3 DEF CallInsertDescriptor
  <2>2. at \in 0 .. MaxHandle
    BY <1>0, <2>1
  <2> QED
    BY <2>1, <2>2, DescriptorGood
<1>4. CASE CallInsertIncluded
  <2>1. PICK k \in DOMAIN db.services, included \in DOMAIN db.services,
             at \in {0} \cup Places :
            /\ WellPlaced(db.services[k], 0, 1)
            /\ db' = InsertIncluded(db, k, at, included)
    BY <1>4 DEF CallInsertIncluded
  <2>2. at \in 0 .. MaxHandle
    BY <1>0, <2>1
  <2> QED
    BY <2>1, <2>2, IncludedGood
<1>5. CASE CallRemoveService
  BY <1>5, RemoveServiceGood DEF CallRemoveService
<1>6. CASE CallClearRange
  BY <1>6, ClearRangeGood DEF CallClearRange
<1>7. CASE CallSetActive
  BY <1>7, SetActiveGood DEF CallSetActive
<1>8. CASE UNCHANGED db
  BY <1>8
<1> QED
  BY <1>1, <1>2, <1>3, <1>4, <1>5, <1>6, <1>7, <1>8 DEF Next

LEMMA AlwaysGood == Spec => []DbInv
BY InitGood, NextGood, PTL DEF Spec

(* Whatever sequence of calls is made, a handle that is given out has 16   *)
(* bits and is not 0, next_handle does not run over, and a service holds   *)
(* no more attributes than it has places.                                  *)
THEOREM TypeCorrect == Spec => []TypeOK
<1>1. DbInv => TypeOK
  <2> SUFFICES ASSUME DbInv PROVE TypeOK
    OBVIOUS
  <2>1. /\ db \in Database
        /\ \A k \in DOMAIN db.services :
               Sound(db.services[k]) /\ db.services[k] \in Service
    BY DEF DbInv, Good, AllSound, Sound
  <2>2. ASSUME NEW s, Sound(s)
        PROVE  /\ s.active \in BOOLEAN
               /\ s.num_handles \in Handles
               /\ Len(s.attributes) \in 1 .. s.num_handles
               /\ End(s) \in Handles
               /\ \A i \in DOMAIN s.attributes :
                      /\ s.attributes[i].handle \in Handles
                      /\ s.attributes[i].uuid \in UuidSet
    <3>1. s \in Service /\ \A i \in DOMAIN s.attributes :
                               s.attributes[i] \in Attr
      BY <2>2 DEF Sound, Service
    <3> QED
      BY <2>2, <3>1 DEF Sound, Service, Attr
  <2>3. db.next_handle \in 0 .. MaxHandle
    BY <2>1 DEF Database
  <2> QED
    BY <2>1, <2>2, <2>3, Zenon DEF TypeOK, UuidSet
<1> QED
  BY <1>1, AlwaysGood, PTL

(* The services lie one behind the other and the attributes of each ascend *)
(* inside its range: find_insert_loc finds the one place of a new service, *)
(* and the places of a service are fewer than its handles.                 *)
THEOREM HandlesStayInOrder == Spec => []HandlesAscend
<1>1. DbInv => HandlesAscend
  <2> SUFFICES ASSUME DbInv, NEW k \in DOMAIN db.services
               PROVE  LET s == db.services[k]
                      IN  /\ \A i \in DOMAIN s.attributes :
                                 s.attributes[i].handle \in Start(s) .. End(s)
                          /\ \A i, j \in DOMAIN s.attributes : i < j =>
                                 s.attributes[i].handle < s.attributes[j].handle
                          /\ k > 1 => End(db.services[k - 1]) < Start(s)
    BY DEF HandlesAscend
  <2> DEFINE q == db.services
             s == q[k]
             a == s.attributes
  <2>1. q \in Seq(Service) /\ Apart(q) /\ Sound(s)
    BY DEF DbInv, Good, AllSound
  <2>2. Start(s) \in Nat /\ End(s) \in Nat
    BY <2>1, ServiceNumbers
  <2>3. \A i \in DOMAIN a : a[i].handle \in Start(s) + i - 1 .. End(s)
    BY <2>1 DEF Sound, Ascending
  <2>4. DOMAIN a = 1 .. Len(a)
    BY <2>1, LenProperties DEF Sound, Service
  <2>5. ASSUME NEW i \in DOMAIN a PROVE a[i].handle \in Start(s) .. End(s)
    BY <2>2, <2>3, <2>4
  <2>6. \A i, j \in DOMAIN a : i < j => a[i].handle < a[j].handle
    BY <2>1 DEF Sound, Ascending
  <2>7. ASSUME k > 1 PROVE End(q[k - 1]) < Start(s)
    <3>1. DOMAIN q = 1 .. Len(q)
      BY <2>1, LenProperties
    <3>2. k - 1 \in DOMAIN q /\ k - 1 < k
      BY <2>7, <3>1
    <3> QED
      BY <2>1, <3>2 DEF Apart
  <2> QED
    BY <2>5, <2>6, <2>7
<1> QED
  BY <1>1, AlwaysGood, PTL

(* gatt_db_get_attribute finds every attribute under the handle it was     *)
(* given: the first service that holds the handle is the only one, and in  *)
(* it no other attribute has the handle.                                   *)
THEOREM AttributesAreFound == Spec => []FoundAgain
<1>1. DbInv => FoundAgain
  <2> SUFFICES ASSUME DbInv, NEW k \in DOMAIN db.services,
                      NEW i \in DOMAIN db.services[k].attributes
               PROVE  LET a == db.services[k].attributes[i]
                      IN  GetAttribute(db, a.handle) = a
    BY DEF FoundAgain
  <2> DEFINE q == db.services
             b == q[k].attributes
             h == b[i].handle
             H == Holding(db, h)
             T == {j \in DOMAIN b : b[j].handle = h}
  <2>1. /\ q \in Seq(Service) /\ Apart(q) /\ DOMAIN q = 1 .. Len(q)
        /\ \A l \in DOMAIN q : Sound(q[l])
    BY LenProperties DEF DbInv, Good, AllSound
  <2>2. /\ DOMAIN b = 1 .. Len(b) /\ \A j \in DOMAIN b : b[j].handle \in Nat
    <3>1. b \in Seq(Attr)
      BY <2>1 DEF Sound, Service
    <3>2. \A j \in DOMAIN b : b[j] \in Attr
      BY <3>1, LenProperties, ElementOfSeq
    <3> QED
      BY <3>1, <3>2, LenProperties, HandleAssumption DEF Attr, Handles
  <2>3. \A l \in DOMAIN q : Start(q[l]) \in Nat /\ End(q[l]) \in Nat
    BY <2>1, ServiceNumbers
  <2>4. h \in Start(q[k]) .. End(q[k])
    <3>1. h \in Start(q[k]) + i - 1 .. End(q[k])
      BY <2>1 DEF Sound, Ascending
    <3> QED
      BY <2>2, <2>3, <3>1
  <2>5. \A j, l \in DOMAIN b : j < l => b[j].handle < b[l].handle
    BY <2>1 DEF Sound, Ascending
  <2> HIDE DEF b
  <2>6. H = {k}
    <3>1. k \in H
      BY <2>4 DEF Holding
    <3>2. ASSUME NEW l \in H PROVE l = k
      <4>1. l \in DOMAIN q /\ h \in Start(q[l]) .. End(q[l])
        BY DEF Holding
      <4>2. ~(l < k) /\ ~(k < l)
        <5>1. l < k => End(q[l]) < Start(q[k])
          BY <2>1, <4>1 DEF Apart
        <5>2. k < l => End(q[k]) < Start(q[l])
          BY <2>1, <4>1 DEF Apart
        <5> QED
          BY <2>3, <2>4, <4>1, <5>1, <5>2
      <4> QED
        BY <2>1, <4>1, <4>2
    <3> QED
      BY <3>1, <3>2
  <2>7. T = {i}
    <3>1. i \in T
      BY DEF b
    <3>2. ASSUME NEW j \in T PROVE j = i
      <4>1. j \in DOMAIN b /\ i \in DOMAIN b /\ b[j].handle = h
        BY DEF b
      <4>2. ~(j < i) /\ ~(i < j)
        <5>1. b[i].handle = h /\ h \in Nat
          BY <2>2, <4>1
        <5> HIDE DEF h
        <5> QED
          BY <2>5, <4>1, <5>1
      <4> QED
        BY <2>2, <4>1, <4>2
    <3> QED
      BY <3>1, <3>2
  <2>8. Min(H) = k /\ Min(T) = i
    <3>1. H \subseteq Nat /\ H # {} /\ T \subseteq Nat /\ T # {}
      <4>1. k \in Nat /\ i \in Nat
        BY <2>1, <2>2 DEF b
      <4> HIDE DEF H, T
      <4> QED
        BY <2>6, <2>7, <4>1
    <3>2. Min(H) \in H /\ Min(T) \in T
      <4> HIDE DEF H, T
      <4> QED
        BY <3>1, MinIsLeast
    <3> HIDE DEF H, T
    <3> QED
      BY <2>6, <2>7, <3>2
  <2>9. GetAttribute(db, h) = b[i]
    <3>1. GetService(db, h) = q[k]
      BY <2>6, <2>8 DEF GetService
    <3>2. GetService(db, h).attributes = b
      BY <3>1 DEF b
    <3>3. H # {} /\ T # {}
      BY <2>6, <2>7
    <3> DEFINE at(s) == {j \in DOMAIN s.attributes : s.attributes[j].handle = h}
               found == {s \in {q[k]} : at(s) # {}}
               first == {s.attributes[Min(at(s))] : s \in found}
    <3>4. at(q[k]) = T
      BY DEF b
    <3>5. found = {q[k]}
      <4> HIDE DEF at
      <4> QED
        BY <3>3, <3>4
    <3>6. first = {b[i]}
      <4>1. q[k].attributes[Min(at(q[k]))] = b[i]
        <5> HIDE DEF at
        <5> QED
          BY <2>8, <3>4 DEF b
      <4> HIDE DEF at, found
      <4> QED
        BY <3>5, <4>1
    <3>7. GetAttribute(db, h) = CHOOSE a \in first : TRUE
      <4>1. found # {} /\ q[k] = GetService(db, h) /\ H # {}
        <5> HIDE DEF found, H, q
        <5> QED
          BY <3>1, <3>3, <3>5
      <4> HIDE DEF h
      <4> QED
        BY <4>1, Zenon DEF GetAttribute
    <3> HIDE DEF first, h
    <3> QED
      BY <3>6, <3>7
  <2> QED
    BY <2>9 DEF b, h
<1> QED
  BY <1>1, AlwaysGood, PTL

(* The declaration of a characteristic is followed by the value it         *)
(* announces, and an included service is announced with the handles of a   *)
(* service that is there, whatever came and went since.                    *)
THEOREM WhatIsDeclaredIsThere == Spec => []DeclarationsMatch
<1>1. DbInv => ValueFollows
  <2>1. ASSUME DbInv, NEW k \in DOMAIN db.services PROVE Follows(db.services[k])
    BY <2>1 DEF DbInv, Good, AllSound, Sound
  <2> QED
    BY <2>1 DEF ValueFollows, Follows, AnnouncedUuid
<1>2. DbInv => IncludesMatch
  <2> SUFFICES ASSUME DbInv, NEW s \in ToSet(db.services),
                      NEW a \in ToSet(s.attributes), a.uuid = INCLUDED
               PROVE  \E i \in ToSet(db.services) : a.value = Announced(i)
    BY DEF IncludesMatch, Announced
  <2>1. PICK k \in DOMAIN db.services : s = db.services[k]
    BY DEF ToSet
  <2>2. PICK j \in DOMAIN s.attributes : a = s.attributes[j]
    BY DEF ToSet
  <2>3. Announces(s, db.services)
    BY <2>1 DEF DbInv, Good
  <2>4. PICK l \in DOMAIN db.services : a.value = Announced(db.services[l])
    BY <2>2, <2>3 DEF Announces
  <2> QED
    BY <2>4 DEF ToSet
<1> QED
  BY <1>1, <1>2, AlwaysGood, PTL DEF DeclarationsMatch

=============================================================================
