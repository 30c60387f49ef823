------------------------- MODULE GattServerProofs -------------------------
(***************************************************************************)
(* Theorems about GattServer: whatever clients send, in whatever order,    *)
(* every request is answered once and within the MTU, lists leave nothing  *)
(* out, long reads end up with the value, and writes are made as a whole.  *)
(*                                                                         *)
(* All of them rest on the database: populate_db builds four services with *)
(* eighteen attributes, and no request changes anything but the value of   *)
(* handle 14 (State). So a search finds the attributes of a range in their *)
(* order, an answer is a matter of lengths, and what is prepared is always *)
(* prepared for handle 14. The recursive functions of the model, searches  *)
(* and prepared writes, are taken a step at a time, each as one of the     *)
(* functions Recursion provides.                                           *)
(***************************************************************************)
EXTENDS GattServer, TLAPS, SequenceTheorems, WellFoundedInduction

-----------------------------------------------------------------------------
(* Numbers and sequences *)

\* A set of numbers that is not empty has a least one.
LEMMA Least ==
    ASSUME NEW T, T \subseteq Nat, T # {}
    PROVE  \E x \in T : \A y \in T : x <= y
<1>1. PICK x \in T : \A y \in T : ~(<<y, x>> \in OpToRel(<, Nat))
  BY NatLessThanWellFounded, WFMin
<1>2. \A y \in T : ~(y < x)
  BY <1>1 DEF OpToRel
<1> QED
  BY <1>2

\* Min finds it.
LEMMA MinIsLeast ==
    ASSUME NEW T, T \subseteq Nat, T # {}
    PROVE  Min(T) \in T /\ \A y \in T : Min(T) <= y
BY Least DEF Min

\* Induction over numbers, with a set of numbers for the property.
LEMMA Counting ==
    ASSUME NEW n \in Nat, NEW T, 0 \in T,
           \A k \in 0 .. n - 1 : k \in T => k + 1 \in T
    PROVE  0 .. n \subseteq T
<1> SUFFICES ASSUME (0 .. n) \ T # {} PROVE FALSE
  OBVIOUS
<1>1. PICK x \in (0 .. n) \ T : \A y \in (0 .. n) \ T : x <= y
  <2>1. (0 .. n) \ T \subseteq Nat
    OBVIOUS
  <2> QED
    BY <2>1, Least
<1>2. x - 1 \in 0 .. n - 1 /\ (x - 1) + 1 = x /\ x - 1 \in 0 .. n
  BY <1>1
<1> QED
  BY <1>1, <1>2

-----------------------------------------------------------------------------
(* The layout of the database *)

\* The first handle of a service, and how many it has
First(k) == IF k = 1 THEN 1 ELSE IF k = 2 THEN 8 ELSE IF k = 3 THEN 12
            ELSE IF k = 4 THEN 16 ELSE 19
Size(k) == IF k = 1 THEN 7 ELSE IF k = 4 THEN 3 ELSE 4

\* The values an attribute can have: clients write that of handle 14. A
\* declaration with the longest UUID has nineteen bytes, and nothing else that
\* the daemon stores is longer.
Values(h) == IF h = 14 THEN {v \in Seq(Byte) : Len(v) < LenMod}
             ELSE {v \in Seq(Atom) : Len(v) <= 19}

\* The types of the attributes: each service begins with its declaration, and
\* what clients write has a type of its own.
Plain == UuidSet \ {Db!PRIMARY, Db!SECONDARY, Long("i2c_read_data")}
UuidsOf(h) == IF h \in {1, 8, 12, 16} THEN {Db!PRIMARY}
              ELSE IF h = 14 THEN {Long("i2c_read_data")} ELSE Plain

PermsOf(h) == IF h \in {11, 14, 15} THEN RW ELSE IF h = 18 THEN {"WRITE"} ELSE {"READ"}
ReadOf(h) == IF h = 10 THEN "svc_chngd" ELSE IF h = 11 THEN "svc_ccc"
             ELSE IF h = 15 THEN "clock_ccc" ELSE "stored"
WriteOf(h) == IF h = 11 THEN "svc_ccc" ELSE IF h = 15 THEN "clock_ccc"
              ELSE IF h = 18 THEN "clock" ELSE "stored"

\* The attribute of a handle
Kind(h) == [handle : {h}, uuid : UuidsOf(h), perms : {PermsOf(h)}, value : Values(h),
            read : {ReadOf(h)}, write : {WriteOf(h)}]
Service == [active : BOOLEAN, num_handles : Nat, attributes : Seq(Attributes)]
Databases == [services : Seq(Service), next_handle : Nat]

\* The first n attributes of service k
Holds(s, k, n) ==
    /\ s.num_handles = Size(k) /\ Len(s.attributes) = n
    /\ \A i \in 1 .. n : s.attributes[i] \in Kind(First(k) + i - 1)

\* A database with k services, of which the last has n attributes
Built(d, k, n) ==
    /\ d \in Databases /\ Len(d.services) = k /\ d.next_handle = First(k + 1)
    /\ \A j \in 1 .. k - 1 : d.services[j].active /\ Holds(d.services[j], j, Size(j))
    /\ k > 0 => Holds(d.services[k], k, n)

Full(d, k) == Built(d, k, Size(k)) /\ (k > 0 => d.services[k].active)
Layout(d) == Full(d, 4)

-----------------------------------------------------------------------------
(* Building *)

\* The community modules are the same in GattDb.
LEMMA SameOperators ==
    /\ \A S : Db!Min(S) = Min(S) /\ Db!Max(S) = Max(S) /\ Db!Last(S) = Last(S)
    /\ \A s, i, e : Db!InsertAt(s, i, e) = InsertAt(s, i, e)
BY DEF Db!Min, Min, Db!Max, Max, Db!Last, Last, Db!InsertAt, InsertAt

\* Every attribute has a type, and so has every kind.
LEMMA UuidsType ==
    ASSUME NEW h
    PROVE  UuidsOf(h) \subseteq UuidSet
BY DEF UuidsOf, Plain, UuidSet, Names, Db!PRIMARY, Long

\* An attribute of a kind is one of those a server holds.
LEMMA KindType ==
    ASSUME NEW h \in 1 .. 18
    PROVE  Kind(h) \subseteq Attributes
<1>1. Values(h) \subseteq Seq(Atom)
  BY DEF Values, Atom
<1>2. PermsOf(h) \subseteq RW
  BY DEF PermsOf, RW
<1>3. /\ ReadOf(h) \in {"stored", "svc_chngd"} \cup Cccs
      /\ WriteOf(h) \in {"stored", "clock"} \cup Cccs
  BY DEF ReadOf, WriteOf, Cccs, OnByte
<1> QED
  BY <1>1, <1>2, <1>3, UuidsType DEF Kind, Attributes

\* The handles of the services follow one another.
LEMMA Handles ==
    ASSUME NEW k \in 1 .. 4
    PROVE  /\ First(k) \in 1 .. 16 /\ Size(k) \in 3 .. 7
           /\ First(k + 1) = First(k) + Size(k)
           /\ \A i \in 1 .. Size(k) : First(k) + i - 1 \in 1 .. 18
           /\ \A j \in 1 .. k - 1 : First(j) + Size(j) <= First(k)
BY DEF First, Size

\* What a service holds, in numbers.
LEMMA HoldsRange ==
    ASSUME NEW s \in Service, NEW k \in 1 .. 4, NEW n \in 1 .. 7, n <= Size(k), Holds(s, k, n)
    PROVE  /\ Db!Start(s) = First(k) /\ Db!End(s) = First(k) + Size(k) - 1
           /\ \A i \in 1 .. n : s.attributes[i].handle = First(k) + i - 1
           /\ s.attributes \in Seq(Attributes) /\ DOMAIN s.attributes = 1 .. n
<1>1. \A i \in 1 .. n : s.attributes[i].handle = First(k) + i - 1
  BY DEF Holds, Kind
<1>2. s.attributes[1].handle = First(k)
  BY <1>1, Handles
<1>3. s.attributes \in Seq(Attributes) /\ DOMAIN s.attributes = 1 .. n
  BY LenProperties DEF Service, Holds
<1> QED
  BY <1>1, <1>2, <1>3, Handles DEF Db!Start, Db!End, Holds

\* Filling the last service.
LEMMA FilledBuilt ==
    ASSUME NEW d, NEW k \in 1 .. 4, NEW n \in 1 .. 7, n <= Size(k), Built(d, k, n),
           NEW q \in Seq(Attributes), n + Len(q) <= Size(k),
           \A i \in 1 .. Len(q) : q[i] \in Kind(First(k) + n + i - 1)
    PROVE  Built(Db!Filled(d, k, q), k, n + Len(q))
<1> DEFINE s == d.services[k]
           a == s.attributes \o q
           t == [s EXCEPT !.attributes = a]
           p == [d.services EXCEPT ![k] = t]
           e == [d EXCEPT !.services = p]
<1>9. First(k) \in Nat
  BY DEF First
<1>8. Db!Filled(d, k, q) = e
  BY DEF Db!Filled
<1>1. /\ d \in Databases /\ d.services \in Seq(Service) /\ Len(d.services) = k
      /\ s \in Service /\ Holds(s, k, n)
  BY DEF Built, Databases
<1>2. /\ s.attributes \in Seq(Attributes) /\ Len(s.attributes) = n /\ Len(q) \in Nat
  BY <1>1, LenProperties DEF Service, Holds
<1>3. /\ a \in Seq(Attributes) /\ Len(a) = n + Len(q)
      /\ \A i \in 1 .. n + Len(q) : a[i] = IF i <= n THEN s.attributes[i] ELSE q[i - n]
  BY <1>2, ConcatProperties
<1> HIDE DEF a
<1>4. t \in Service /\ t.attributes = a /\ t.num_handles = s.num_handles
  BY <1>1, <1>3 DEF Service
<1>5. ASSUME NEW i \in 1 .. n + Len(q) PROVE a[i] \in Kind(First(k) + i - 1)
  <2>3. n \in Nat /\ Len(q) \in Nat /\ First(k) \in Nat /\ i \in Nat /\ i >= 1
    BY <1>2, <1>9
  <2>1. CASE i <= n
    <3>1. i \in 1 .. n /\ a[i] = s.attributes[i]
      BY <1>3, <2>1, <2>3
    <3> QED
      BY <1>1, <3>1 DEF Holds
  <2>2. CASE i > n
    <3>1. i - n \in 1 .. Len(q) /\ First(k) + n + (i - n) - 1 = First(k) + i - 1
      BY <2>2, <2>3
    <3>2. q[i - n] \in Kind(First(k) + n + (i - n) - 1)
      BY <3>1
    <3> QED
      BY <1>2, <1>3, <2>2, <3>1, <3>2
  <2> QED
    BY <2>1, <2>2, <2>3
<1>6. Holds(t, k, n + Len(q))
  BY <1>1, <1>2, <1>3, <1>4, <1>5 DEF Holds
<1> HIDE DEF t
<1>10. p \in Seq(Service) /\ Len(p) = k
       /\ \A j \in 1 .. k : p[j] = IF j = k THEN t ELSE d.services[j]
  BY <1>1, <1>4, ExceptSeq
<1> HIDE DEF p
<1>7. /\ e \in Databases /\ e.next_handle = d.next_handle /\ Len(e.services) = k
      /\ e.services[k] = t /\ \A j \in 1 .. k - 1 : e.services[j] = d.services[j]
  BY <1>1, <1>10 DEF Databases
<1> HIDE DEF e, s
<1> QED
  BY <1>6, <1>7, <1>8 DEF Built

\* The bytes of a UUID.
LEMMA UuidType ==
    ASSUME NEW u \in UuidSet
    PROVE  Db!UuidBytes(u) \in Seq(Atom) /\ Len(Db!UuidBytes(u)) = u.size
           /\ u.size \in {2, 16} /\ u.size \in Nat /\ u.size <= 16
<1>1. u.size \in Nat /\ u.name \in Atom /\ u.size \in {2, 16}
  BY DEF UuidSet, Atom
<1> QED
  BY <1>1 DEF Db!UuidBytes

\* No byte of a declaration is one a client writes.
LEMMA DeclaredType ==
    ASSUME NEW u \in UuidSet, NEW h \in Nat,
           NEW properties \in SUBSET {"READ", "WRITE", "INDICATE", "NOTIFY",
                                      "WRITE_WITHOUT_RESP"}
    PROVE  Db!Declared(properties, h, u) \in Seq(Atom) /\ Len(Db!Declared(properties, h, u)) <= 19
<1>1. <<properties, h, h>> \in Seq(Atom) /\ Len(<<properties, h, h>>) = 3
  BY DEF Atom, Byte
<1>2. Db!UuidBytes(u) \in Seq(Atom) /\ Len(Db!UuidBytes(u)) \in Nat /\ Len(Db!UuidBytes(u)) <= 16
  BY UuidType
<1> DEFINE x == <<properties, h, h>>
           y == Db!UuidBytes(u)
<1> HIDE DEF x, y
<1>3. x \in Seq(Atom) /\ Len(x) = 3 /\ y \in Seq(Atom)
      /\ Len(y) \in Nat /\ Len(y) <= 16
  BY <1>1, <1>2 DEF x, y
<1>4. x \o y \in Seq(Atom) /\ Len(x \o y) = Len(x) + Len(y)
  BY <1>3, ConcatProperties
<1>5. Db!Declared(properties, h, u) = x \o y
  BY DEF Db!Declared, x, y
<1>6. Len(x \o y) <= 19
  BY <1>3, <1>4
<1> QED
  BY <1>4, <1>5, <1>6, Zenon

\* The attributes gatt-db.c makes itself.
LEMMA FixedKind ==
    ASSUME NEW h \in 1 .. 18, h \notin {10, 11, 14, 15, 18}, NEW u \in UuidsOf(h),
           NEW v \in Seq(Atom), Len(v) <= 19
    PROVE  Db!Fixed(h, u, v) \in Kind(h)
BY DEF Db!Fixed, Db!Attribute, Kind, Values, PermsOf, ReadOf, WriteOf

\* The types gatt-db.c gives them.
LEMMA Reserved == Db!PRIMARY \in UuidSet /\ Db!CHARACTERISTIC \in Plain
BY DEF UuidSet, Names, Plain, Db!PRIMARY, Db!SECONDARY, Db!CHARACTERISTIC, Long

\* A service behind the last one.
LEMMA InsertLast ==
    ASSUME NEW S, NEW q \in Seq(S), NEW e \in S
    PROVE  InsertAt(q, Len(q) + 1, e) = Append(q, e)
<1>1. Len(q) \in Nat
  BY LenProperties
<1>2. SubSeq(q, 1, (Len(q) + 1) - 1) = q
  BY <1>1
<1>3. SubSeq(q, Len(q) + 1, Len(q)) = <<>>
  BY <1>1
<1>4. q \o <<e>> = Append(q, e) /\ Append(q, e) \o <<>> = Append(q, e)
  OBVIOUS
<1> QED
  BY <1>2, <1>3, <1>4 DEF InsertAt

\* gatt_db_add_service, behind services that are complete.
LEMMA ServiceBuilt ==
    ASSUME NEW d, NEW k \in 1 .. 4, NEW n, n = k - 1, Full(d, n),
           NEW u \in UuidSet, NEW size, size = Size(k)
    PROVE  Built(Db!AddService(d, TRUE, u, size), k, 1)
<1> SUFFICES Built(Db!AddService(d, TRUE, u, Size(k)), k, 1)
  OBVIOUS
<1> USE Full(d, k - 1)
<1> DEFINE h == First(k)
           end == h + Size(k) - 1
           l == Db!Location(d, h, end)
           new == Db!NewService(h, TRUE, u, Size(k))
           p == Db!InsertService(d, h, TRUE, u, Size(k))
           q == InsertAt(d.services, k, new)
<1>1. /\ h \in 1 .. 16 /\ Size(k) \in 3 .. 7 /\ end \in 1 .. 18
      /\ First(k + 1) = h + Size(k) /\ h + Size(k) \in 1 .. 19
  BY DEF First, Size
<1>2. /\ d \in Databases /\ d.services \in Seq(Service) /\ Len(d.services) = k - 1
      /\ DOMAIN d.services = 1 .. k - 1 /\ d.next_handle = h
  BY LenProperties DEF Full, Built, Databases
<1>3. ASSUME NEW j \in 1 .. k - 1
      PROVE  d.services[j] \in Service /\ d.services[j].active /\ Holds(d.services[j], j, Size(j))
  <2>1. k - 1 > 0 /\ (j = k - 1 \/ j \in 1 .. (k - 1) - 1)
    OBVIOUS
  <2> QED
    BY <1>2, <2>1 DEF Full, Built
<1>4. ASSUME NEW j \in 1 .. k - 1
      PROVE  ~(Db!Overlaps(d.services[j], h, end) \/ end < Db!Start(d.services[j]))
  <2>1. j \in 1 .. 4 /\ Size(j) \in 1 .. 7 /\ First(j) \in 1 .. 18
        /\ First(j) + Size(j) <= h
    BY DEF First, Size
  <2>2. Db!Start(d.services[j]) = First(j) /\ Db!End(d.services[j]) = First(j) + Size(j) - 1
    BY <1>3, <2>1, HoldsRange
  <2> QED
    BY <1>1, <2>1, <2>2 DEF Db!Overlaps
<1>5. l = k
  <2>1. {j \in DOMAIN d.services : \/ Db!Overlaps(d.services[j], h, end)
                                   \/ end < Db!Start(d.services[j])}
            \cup {Len(d.services) + 1} = {k}
    BY <1>2, <1>4
  <2>2. Min({k}) = k
    BY DEF Min
  <2> QED
    BY <2>1, <2>2, SameOperators DEF Db!Location
<1>6. /\ new \in Service /\ Holds(new, k, 1)
  <2> DEFINE a == Db!Fixed(h, Db!PRIMARY, Db!UuidBytes(u))
  <2>1. a \in Kind(h)
    <3>1. h \in 1 .. 18 /\ h \notin {10, 11, 14, 15, 18} /\ h \in {1, 8, 12, 16}
      BY DEF First
    <3>2. Db!PRIMARY \in UuidsOf(h)
      BY <3>1 DEF UuidsOf
    <3>3. Db!UuidBytes(u) \in Seq(Atom) /\ Len(Db!UuidBytes(u)) <= 19
      BY UuidType
    <3> QED
      BY <3>1, <3>2, <3>3, FixedKind
  <2>2. a \in Attributes
    BY <1>1, <2>1, KindType
  <2>3. new = [active |-> FALSE, num_handles |-> Size(k), attributes |-> <<a>>]
    BY DEF Db!NewService
  <2> HIDE DEF a, new
  <2>4. \A i \in 1 .. 1 : <<a>>[i] \in Kind(h + i - 1)
    BY <1>1, <2>1
  <2>5. new \in Service
    <3>1. Size(k) \in Nat /\ <<a>> \in Seq(Attributes)
      BY <1>1, <2>2
    <3> QED
      BY <2>3, <3>1 DEF Service
  <2>6. new.num_handles = Size(k) /\ new.attributes = <<a>> /\ Len(<<a>>) = 1
    BY <2>3
  <2> QED
    BY <2>4, <2>5, <2>6 DEF Holds
<1> HIDE DEF new, h, end, l, p
<1>7. /\ q \in Seq(Service) /\ Len(q) = k /\ q[k] = new
      /\ \A j \in 1 .. k - 1 : q[j] = d.services[j]
  <2>1. k = Len(d.services) + 1 /\ d.services \in Seq(Service) /\ new \in Service
    BY <1>2, <1>6
  <2>2. q = Append(d.services, new)
    BY <2>1, InsertLast
  <2> HIDE DEF q
  <2> QED
    BY <1>2, <2>1, <2>2
<1> HIDE DEF q
<1>8. p = [services |-> q, next_handle |-> Max({h + Size(k), h}) % 65536]
  <2>1. ~(k \in DOMAIN d.services)
    BY <1>2
  <2>2. ~(h < 1 \/ Size(k) < 1 \/ end > 65535)
    BY <1>1
  <2> QED
    <3>1. p = [services |-> Db!InsertAt(d.services, l, new),
               next_handle |-> Db!Max({h + Size(k), d.next_handle}) % (65535 + 1)]
      BY <1>5, <2>1, <2>2 DEF Db!InsertService, new, p, l, end
    <3>2. Db!InsertAt(d.services, l, new) = q
      BY <1>5, SameOperators DEF q
    <3>3. Db!Max({h + Size(k), d.next_handle}) = Max({h + Size(k), h})
      BY <1>2, SameOperators
    <3> QED
      BY <3>1, <3>2, <3>3
<1>9. Max({h + Size(k), h}) % 65536 = First(k + 1)
  <2>1. Max({h + Size(k), h}) = h + Size(k)
    BY <1>1 DEF Max
  <2> QED
    BY <1>1, <2>1
<1>10. Db!AddService(d, TRUE, u, Size(k)) = p
  BY <1>2 DEF Db!AddService, p
<1>11. p \in Databases /\ p.services = q /\ p.next_handle = First(k + 1)
  BY <1>1, <1>7, <1>8, <1>9 DEF Databases
<1> QED
  BY <1>3, <1>6, <1>7, <1>10, <1>11 DEF Built

\* What get_attribute_index and the last handle are in a service of ours.
LEMMA LastOf ==
    ASSUME NEW d, NEW k \in 1 .. 4, NEW n \in 1 .. 7, n <= Size(k), Built(d, k, n),
           NEW m \in 1 .. 2
    PROVE  /\ Db!NextIn(d.services[k], m) = First(k) + n - 1 + m
           /\ Db!Start(d.services[k]) = First(k)
           /\ Len(d.services[k].attributes) = n /\ d.services[k].num_handles = Size(k)
<1> DEFINE s == d.services[k]
<1>1. s \in Service /\ Holds(s, k, n)
  BY DEF Built, Databases
<1>2. /\ Db!Start(s) = First(k) /\ \A i \in 1 .. n : s.attributes[i].handle = First(k) + i - 1
  BY <1>1, HoldsRange
<1>3. Len(s.attributes) = n /\ s.num_handles = Size(k)
  BY <1>1 DEF Holds
<1>4. Db!Last(s.attributes).handle = First(k) + n - 1
  BY <1>2, <1>3 DEF Db!Last
<1>5. First(k) \in 1 .. 16
  BY DEF First
<1> HIDE DEF s
<1>6. (First(k) + n - 1 + m) % 65536 = First(k) + n - 1 + m
  BY <1>5
<1> QED
  BY <1>2, <1>3, <1>4, <1>6 DEF Db!NextIn, s

\* gatt_db_service_add_characteristic: the declaration and the value.
LEMMA CharBuilt ==
    ASSUME NEW d, NEW k \in 1 .. 4, NEW n \in 1 .. 7, n + 2 <= Size(k), Built(d, k, n),
           NEW h, h = First(k) + n + 1, h - 1 \notin {10, 11, 14, 15, 18},
           NEW u \in UuidsOf(h),
           NEW properties \in SUBSET {"READ", "WRITE", "INDICATE", "NOTIFY",
                                      "WRITE_WITHOUT_RESP"},
           NEW m, m = n + 2
    PROVE  Built(Db!AddCharacteristic(d, k, u, PermsOf(h), properties, ReadOf(h), WriteOf(h)),
                 k, m)
<1> DEFINE a == Db!Fixed(h - 1, Db!CHARACTERISTIC, Db!Declared(properties, h, u))
           b == Db!Attribute(h, u, PermsOf(h), <<>>, ReadOf(h), WriteOf(h))
           q == <<a, b>>
           s == d.services[k]
<1>1. Size(k) \in 1 .. 7 /\ First(k) \in 1 .. 16 /\ First(k) + Size(k) <= 19
  BY DEF First, Size
<1>2. h \in 1 .. 18 /\ h - 1 \in 1 .. 18 /\ h - 1 = First(k) + n /\ h \in Nat /\ h > First(k)
  BY <1>1
<1>3. a \in Kind(h - 1)
  <2>1. h - 1 \notin {1, 8, 12, 16} /\ h - 1 # 14
    BY <1>2 DEF First, Size
  <2>2. Db!CHARACTERISTIC \in UuidsOf(h - 1)
    BY <2>1, Reserved DEF UuidsOf
  <2>3. u \in UuidSet
    BY UuidsType
  <2> DEFINE v == Db!Declared(properties, h, u)
  <2>4. v \in Seq(Atom) /\ Len(v) <= 19
    BY <1>2, <2>3, DeclaredType
  <2> HIDE DEF v
  <2>5. Db!Fixed(h - 1, Db!CHARACTERISTIC, v) \in Kind(h - 1)
    BY <1>2, <2>2, <2>4, FixedKind
  <2> QED
    BY <2>5 DEF v
<1>4. b \in Kind(h)
  <2>1. <<>> \in Values(h)
    BY BoundsAssumption DEF Values
  <2> QED
    BY <2>1 DEF Db!Attribute, Kind
<1>5. a \in Attributes /\ b \in Attributes
  BY <1>2, <1>3, <1>4, KindType
<1>6. Db!AddCharacteristic(d, k, u, PermsOf(h), properties, ReadOf(h), WriteOf(h))
        = Db!Filled(d, k, q)
  <2>1. Db!NextIn(s, 2) = h
    BY <1>1, <1>2, LastOf
  <2>2. Db!HasRoom(s, 1)
    <3>1. Len(s.attributes) = n /\ s.num_handles = Size(k)
      BY DEF Built, Holds
    <3> HIDE DEF s
    <3> QED
      BY <1>1, <3>1 DEF Db!HasRoom
  <2>3. Db!Start(s) = First(k)
    BY <1>1, LastOf
  <2>4. ~(0 \in 1 .. Db!Start(s)) /\ 0 # 65535
    BY <1>1, <2>3
  <2> HIDE DEF s
  <2> QED
    BY <2>1, <2>2, <2>4 DEF Db!AddCharacteristic, Db!InsertCharacteristic, s
<1> HIDE DEF a, b
<1>7. q \in Seq(Attributes) /\ Len(q) = 2 /\ q[1] = a /\ q[2] = b
  BY <1>5
<1>8. ASSUME NEW i \in 1 .. Len(q) PROVE q[i] \in Kind(First(k) + n + i - 1)
  <2>1. CASE i = 1
    <3>1. First(k) + n + i - 1 = h - 1
      BY <1>1, <1>2, <2>1
    <3> QED
      BY <1>3, <1>7, <2>1, <3>1
  <2>2. CASE i = 2
    <3>1. First(k) + n + i - 1 = h
      BY <1>1, <1>2, <2>2
    <3> QED
      BY <1>4, <1>7, <2>2, <3>1
  <2> QED
    BY <1>7, <2>1, <2>2
<1> HIDE DEF q
<1>9. n <= Size(k) /\ n + Len(q) <= Size(k)
  BY <1>1, <1>7
<1> QED
  BY <1>6, <1>7, <1>8, <1>9, FilledBuilt

\* gatt_db_service_add_descriptor.
LEMMA DescBuilt ==
    ASSUME NEW d, NEW k \in 1 .. 4, NEW n \in 1 .. 7, n + 1 <= Size(k), Built(d, k, n),
           NEW h, h = First(k) + n, NEW u \in UuidsOf(h), NEW m, m = n + 1
    PROVE  Built(Db!AddDescriptor(d, k, u, PermsOf(h), ReadOf(h), WriteOf(h)), k, m)
<1> DEFINE b == Db!Attribute(h, u, PermsOf(h), <<>>, ReadOf(h), WriteOf(h))
           q == <<b>>
           s == d.services[k]
<1>1. Size(k) \in 1 .. 7 /\ First(k) \in 1 .. 16 /\ First(k) + Size(k) <= 19
  BY DEF First, Size
<1>2. h \in 1 .. 18
  BY <1>1
<1>3. b \in Kind(h)
  <2>1. <<>> \in Values(h)
    BY BoundsAssumption DEF Values
  <2> QED
    BY <2>1 DEF Db!Attribute, Kind
<1>4. b \in Attributes
  BY <1>2, <1>3, KindType
<1>5. Db!AddDescriptor(d, k, u, PermsOf(h), ReadOf(h), WriteOf(h)) = Db!Filled(d, k, q)
  <2>1. Db!NextIn(s, 1) = h
    BY <1>1, <1>2, LastOf
  <2>2. Db!HasRoom(s, 0)
    <3>1. Len(s.attributes) = n /\ s.num_handles = Size(k)
      BY DEF Built, Holds
    <3> HIDE DEF s
    <3> QED
      BY <1>1, <3>1 DEF Db!HasRoom
  <2>3. ~(0 \in 1 .. Db!Start(s))
    BY <1>1, LastOf
  <2> HIDE DEF s
  <2> QED
    BY <2>1, <2>2, <2>3 DEF Db!AddDescriptor, Db!InsertDescriptor, s
<1> HIDE DEF b
<1>6. q \in Seq(Attributes) /\ Len(q) = 1 /\ q[1] = b
  BY <1>4
<1>7. ASSUME NEW i \in 1 .. Len(q) PROVE q[i] \in Kind(First(k) + n + i - 1)
  <2>1. i = 1 /\ First(k) + n + i - 1 = h
    BY <1>1, <1>6
  <2> QED
    BY <1>3, <1>6, <2>1
<1> HIDE DEF q
<1>8. n <= Size(k) /\ n + Len(q) <= Size(k)
  BY <1>1, <1>6
<1>9. Built(Db!Filled(d, k, q), k, n + Len(q))
  BY <1>6, <1>7, <1>8, FilledBuilt
<1> QED
  BY <1>5, <1>6, <1>9

\* gatt_db_service_set_active.
LEMMA ActiveBuilt ==
    ASSUME NEW d, NEW k \in 1 .. 4, NEW n, n = Size(k), Built(d, k, n)
    PROVE  Full(Db!SetActive(d, k, TRUE), k)
<1> DEFINE s == d.services[k]
           t == [s EXCEPT !.active = TRUE]
           p == [d.services EXCEPT ![k] = t]
           e == [d EXCEPT !.services = p]
<1>1. Db!SetActive(d, k, TRUE) = e
  BY DEF Db!SetActive
<1>2. /\ d \in Databases /\ d.services \in Seq(Service) /\ Len(d.services) = k
      /\ s \in Service /\ Holds(s, k, Size(k))
  BY DEF Built, Databases
<1>3. /\ t \in Service /\ t.attributes = s.attributes /\ t.num_handles = s.num_handles
      /\ t.active = TRUE
  BY <1>2 DEF Service
<1>4. Holds(t, k, Size(k))
  BY <1>2, <1>3 DEF Holds
<1> HIDE DEF t
<1>5. p \in Seq(Service) /\ Len(p) = k
      /\ \A j \in 1 .. k : p[j] = IF j = k THEN t ELSE d.services[j]
  BY <1>2, <1>3, ExceptSeq
<1> HIDE DEF p
<1>6. /\ e \in Databases /\ e.next_handle = d.next_handle /\ Len(e.services) = k
      /\ e.services[k] = t /\ \A j \in 1 .. k - 1 : e.services[j] = d.services[j]
  BY <1>2, <1>5 DEF Databases
<1> HIDE DEF e, s
<1> QED
  BY <1>1, <1>3, <1>4, <1>6 DEF Full, Built

\* How many attributes service j has in a database of k services, of which the
\* last has n.
Count(j, k, n) == IF j = k THEN n ELSE Size(j)

\* Each service of a database that is being built.
LEMMA BuiltServices ==
    ASSUME NEW d, NEW k \in 1 .. 4, NEW n \in 1 .. 7, n <= Size(k), Built(d, k, n),
           NEW j \in 1 .. k
    PROVE  /\ d.services[j] \in Service /\ Holds(d.services[j], j, Count(j, k, n))
           /\ Count(j, k, n) \in 1 .. 7 /\ Count(j, k, n) <= Size(j)
           /\ Db!Start(d.services[j]) = First(j)
           /\ Db!End(d.services[j]) = First(j) + Size(j) - 1
           /\ d.services[j].attributes \in Seq(Attributes)
           /\ DOMAIN d.services[j].attributes = 1 .. Count(j, k, n)
           /\ \A i \in 1 .. Count(j, k, n) :
                 /\ d.services[j].attributes[i] \in Kind(First(j) + i - 1)
                 /\ d.services[j].attributes[i].handle = First(j) + i - 1
<1> DEFINE s == d.services[j]
           m == Count(j, k, n)
<1>1. s \in Service /\ Holds(s, j, m)
  <2>1. CASE j = k
    BY <2>1 DEF Built, Databases, Count
  <2>2. CASE j \in 1 .. k - 1
    BY <2>2 DEF Built, Databases, Count
  <2> QED
    BY <2>1, <2>2
<1>2. m \in 1 .. 7 /\ m <= Size(j)
  BY DEF Count, Size
<1> HIDE DEF s, m
<1>3. /\ Db!Start(s) = First(j) /\ Db!End(s) = First(j) + Size(j) - 1
      /\ s.attributes \in Seq(Attributes) /\ DOMAIN s.attributes = 1 .. m
      /\ \A i \in 1 .. m : s.attributes[i].handle = First(j) + i - 1
  <2>1. j \in 1 .. 4
    OBVIOUS
  <2> QED
    BY <1>1, <1>2, <2>1, HoldsRange
<1>4. \A i \in 1 .. m : s.attributes[i] \in Kind(First(j) + i - 1)
  BY <1>1 DEF Holds
<1> QED
  BY <1>1, <1>2, <1>3, <1>4 DEF s, m

\* The ranges of the services lie apart.
LEMMA Apart ==
    ASSUME NEW j \in 1 .. 4, NEW l \in 1 .. 4, NEW h,
           h \in First(j) .. First(j) + Size(j) - 1,
           h \in First(l) .. First(l) + Size(l) - 1
    PROVE  j = l
BY DEF First, Size

\* The effect on the attributes
OnlyValue(d, e, k, c, j, i, v) ==
    /\ \A l \in 1 .. k : /\ e.services[l].active = d.services[l].active
                         /\ l # j => e.services[l] = d.services[l]
    /\ \A m \in 1 .. c : e.services[j].attributes[m]
          = IF m = i THEN [d.services[j].attributes[m] EXCEPT !.value = v]
            ELSE d.services[j].attributes[m]

\* A new value of an attribute that fits it.
LEMMA SetBuilt ==
    ASSUME NEW d, NEW k \in 1 .. 4, NEW n \in 1 .. 7, n <= Size(k), Built(d, k, n),
           NEW j \in 1 .. k, NEW i \in 1 .. Count(j, k, n),
           NEW h, h = First(j) + i - 1, NEW v \in Values(h)
    PROVE  /\ Built(SetValue(d, h, v), k, n)
           /\ OnlyValue(d, SetValue(d, h, v), k, Count(j, k, n), j, i, v)
<1> DEFINE c == Count(j, k, n)
           s == d.services[j]
           a == s.attributes[i]
           b == [a EXCEPT !.value = v]
           r == [s.attributes EXCEPT ![i] = b]
           t == [s EXCEPT !.attributes = r]
           p == [d.services EXCEPT ![j] = t]
           e == [d EXCEPT !.services = p]
<1>1. /\ s \in Service /\ Holds(s, j, c) /\ c \in 1 .. 7 /\ c <= Size(j)
      /\ s.attributes \in Seq(Attributes) /\ DOMAIN s.attributes = 1 .. c
      /\ \A m \in 1 .. c : s.attributes[m] \in Kind(First(j) + m - 1)
      /\ \A m \in 1 .. c : s.attributes[m].handle = First(j) + m - 1
  <2>1. s \in Service /\ Holds(s, j, c)
    BY BuiltServices
  <2>2. c \in 1 .. 7 /\ c <= Size(j)
    BY BuiltServices
  <2>3. s.attributes \in Seq(Attributes)
    BY BuiltServices
  <2>4. DOMAIN s.attributes = 1 .. c
    <3>1. Len(s.attributes) = c
      BY <2>1 DEF Holds
    <3> QED
      BY <2>3, <3>1, LenProperties
  <2>5. ASSUME NEW m \in 1 .. c
        PROVE  s.attributes[m] \in Kind(First(j) + m - 1)
    BY BuiltServices
  <2>6. ASSUME NEW m \in 1 .. c
        PROVE  s.attributes[m].handle = First(j) + m - 1
    BY <2>5 DEF Kind
  <2> QED
    BY <2>1, <2>2, <2>3, <2>4, <2>5, <2>6
<1>2. d \in Databases /\ d.services \in Seq(Service) /\ Len(d.services) = k
      /\ DOMAIN d.services = 1 .. k
  BY LenProperties DEF Built, Databases
<1>3. /\ j \in 1 .. 4 /\ First(j) \in 1 .. 16 /\ Size(j) \in 1 .. 7 /\ h \in 1 .. 18
      /\ h \in First(j) .. First(j) + Size(j) - 1
  <2>1. j \in 1 .. 4 /\ First(j) \in 1 .. 16 /\ Size(j) \in 1 .. 7
        /\ First(j) + Size(j) <= 19
    BY DEF First, Size
  <2>2. i \in 1 .. 7 /\ i <= Size(j)
    BY <1>1, <2>1
  <2> QED
    BY <2>1, <2>2
<1>4. (CHOOSE l \in DOMAIN d.services :
           h \in Db!Start(d.services[l]) .. Db!End(d.services[l])) = j
  <2>1. ASSUME NEW l \in 1 .. k
        PROVE  h \in Db!Start(d.services[l]) .. Db!End(d.services[l]) <=> l = j
    <3>1. Db!Start(d.services[l]) = First(l) /\ Db!End(d.services[l]) = First(l) + Size(l) - 1
      BY BuiltServices
    <3>2. l \in 1 .. 4
      OBVIOUS
    <3> QED
      BY <1>3, <3>1, <3>2, Apart
  <2> QED
    BY <1>2, <2>1
<1>5. (CHOOSE m \in DOMAIN s.attributes : s.attributes[m].handle = h) = i
  <2> HIDE DEF s, c
  <2>1. ASSUME NEW m \in 1 .. c PROVE s.attributes[m].handle = h <=> m = i
    <3>1. s.attributes[m].handle = First(j) + m - 1
      BY <1>1
    <3>2. First(j) \in Int /\ m \in Int /\ i \in Int
      <4>1. m \in 1 .. c /\ i \in 1 .. c
        BY DEF c
      <4> QED
        BY <1>3, <4>1
    <3> QED
      BY <3>1, <3>2
  <2> QED
    BY <1>1, <2>1
<1>6. SetValue(d, h, v) = e
  <2> DEFINE kk == CHOOSE l \in DOMAIN d.services :
                       h \in Db!Start(d.services[l]) .. Db!End(d.services[l])
             ii(l) == CHOOSE m \in DOMAIN d.services[l].attributes :
                       d.services[l].attributes[m].handle = h
  <2>1. kk = j /\ ii(j) = i
    BY <1>4, <1>5
  <2>2. SetValue(d, h, v) = [d EXCEPT !.services[kk].attributes[ii(kk)].value = v]
    BY ZenonT(30) DEF SetValue
  <2> HIDE DEF kk, ii
  <2>3. SetValue(d, h, v) = [d EXCEPT !.services[j].attributes[i].value = v]
    BY <2>1, <2>2, Zenon
  <2> QED
    BY <2>3, Zenon
<1>7. /\ b \in Kind(h) /\ b \in Attributes
      /\ \A m \in 1 .. c : r[m] = IF m = i THEN b ELSE s.attributes[m]
      /\ r \in Seq(Attributes) /\ Len(r) = c
  <2>1. a \in Kind(h)
    BY <1>1
  <2>2. b \in Kind(h)
    <3> HIDE DEF a
    <3> QED
      BY <2>1 DEF Kind
  <2>3. b \in Attributes
    BY <1>3, <2>2, KindType
  <2> HIDE DEF b, s
  <2>4. Len(s.attributes) = c /\ i \in 1 .. Len(s.attributes)
    BY <1>1, LenProperties
  <2> QED
    BY <1>1, <2>2, <2>3, <2>4, ExceptSeq
<1> HIDE DEF r, b
<1>8. /\ t \in Service /\ t.attributes = r /\ t.num_handles = s.num_handles
      /\ t.active = s.active
  BY <1>1, <1>7 DEF Service
<1>9. Holds(t, j, c)
  <2>1. \A m \in 1 .. c : r[m] \in Kind(First(j) + m - 1)
    BY <1>1, <1>7
  <2> HIDE DEF t, s
  <2> QED
    BY <1>1, <1>7, <1>8, <2>1 DEF Holds
<1> HIDE DEF t
<1>10. p \in Seq(Service) /\ Len(p) = k
       /\ \A l \in 1 .. k : p[l] = IF l = j THEN t ELSE d.services[l]
  BY <1>2, <1>8, ExceptSeq
<1> HIDE DEF p
<1>11. e \in Databases /\ e.services = p /\ e.next_handle = d.next_handle
  BY <1>2, <1>10 DEF Databases
<1> HIDE DEF e
<1>12. Built(e, k, n)
  <2>1. ASSUME NEW l \in 1 .. k - 1
        PROVE  e.services[l].active /\ Holds(e.services[l], l, Size(l))
    <3>1. l \in 1 .. k /\ d.services[l].active /\ Holds(d.services[l], l, Size(l))
      BY DEF Built
    <3>2. CASE l = j
      <4>1. c = Size(j)
        BY <3>2 DEF Count
      <4> QED
        BY <1>8, <1>9, <1>10, <1>11, <3>1, <3>2, <4>1
    <3>3. CASE l # j
      BY <1>10, <1>11, <3>1, <3>3
    <3> QED
      BY <3>2, <3>3
  <2>2. Holds(e.services[k], k, n)
    <3>1. CASE k = j
      <4>1. c = n
        BY <3>1 DEF Count
      <4> QED
        BY <1>9, <1>10, <1>11, <3>1, <4>1
    <3>2. CASE k # j
      <4>1. Holds(d.services[k], k, n)
        BY DEF Built
      <4> QED
        BY <1>10, <1>11, <3>2, <4>1
    <3> QED
      BY <3>1, <3>2
  <2>3. e.next_handle = First(k + 1)
    BY <1>11 DEF Built
  <2> QED
    BY <1>10, <1>11, <2>1, <2>2, <2>3 DEF Built
<1>13. \A m \in 1 .. c : e.services[j].attributes[m]
                = IF m = i THEN b ELSE s.attributes[m]
  BY <1>7, <1>8, <1>10, <1>11
<1>14. \A l \in 1 .. k : /\ e.services[l].active = d.services[l].active
                         /\ l # j => e.services[l] = d.services[l]
  BY <1>8, <1>10, <1>11
<1>15. OnlyValue(d, e, k, c, j, i, v)
  BY <1>13, <1>14 DEF OnlyValue, b
<1> QED
  BY <1>6, <1>12, <1>15

\* populate_gap_service writes some values itself.
LEMMA SetKeeps ==
    ASSUME NEW d, NEW k \in 1 .. 4, NEW n \in 1 .. 7, n <= Size(k), Built(d, k, n),
           NEW j \in 1 .. k, NEW i \in 1 .. Count(j, k, n),
           NEW h, h = First(j) + i - 1, NEW v \in Values(h)
    PROVE  Built(SetValue(d, h, v), k, n)
BY SetBuilt

\* populate_gap_service
LEMMA GapLayout ==
    ASSUME NEW d, Full(d, 0)
    PROVE  Full(PopulateGap(d), 1)
<1> DEFINE Char(e, uuid) == Db!AddCharacteristic(e, 1, Short(uuid), {"READ"},
                                {"READ"}, "stored", "stored")
           d0 == Db!AddService(d, TRUE, Short("gap"), 7)
           d1 == Char(d0, "device_name")
           d2 == Char(d1, "appearance")
           d3 == Char(d2, "pref_conn")
           d4 == SetValue(d3, 3, <<87, 65, 76, 76, 67, 76, 79, 67, 75, 0>>)
           d5 == SetValue(d4, 5, <<0, 0>>)
           d6 == SetValue(d5, 7, <<6, 0, 8, 0, 0, 0, 250, 0>>)
<1>1. Size(1) = 7 /\ First(1) = 1
  BY DEF Size, First
<1>2. Built(d0, 1, 1)
  <2>1. Short("gap") \in UuidSet
    BY DEF Short, UuidSet, Names
  <2>2. 1 \in 1 .. 4 /\ 0 = 1 - 1 /\ 7 = Size(1)
    BY <1>1
  <2> QED
    BY <2>1, <2>2, ServiceBuilt, Zenon
<1> HIDE DEF d0
<1>3. ASSUME NEW e, NEW n \in {1, 3, 5}, Built(e, 1, n),
             NEW name \in {"device_name", "appearance", "pref_conn"}
      PROVE  Built(Char(e, name), 1, n + 2)
  <2> DEFINE h == n + 2
  <2>1. Short(name) \in UuidsOf(h)
    BY DEF Short, Long, UuidSet, Names, UuidsOf, Plain, Db!PRIMARY, Db!SECONDARY
  <2>2. PermsOf(h) = {"READ"} /\ ReadOf(h) = "stored" /\ WriteOf(h) = "stored"
    BY DEF PermsOf, ReadOf, WriteOf
  <2>3. /\ h = First(1) + n + 1 /\ h - 1 \notin {10, 11, 14, 15, 18}
        /\ n \in 1 .. 7 /\ n + 2 <= Size(1) /\ 1 \in 1 .. 4 /\ h = n + 2
    BY <1>1
  <2>4. {"READ"} \in SUBSET {"READ", "WRITE", "INDICATE", "NOTIFY", "WRITE_WITHOUT_RESP"}
    OBVIOUS
  <2>6. Built(Char(e, name), 1, n + 2) = Built(Db!AddCharacteristic(e, 1, Short(name),
            PermsOf(h), {"READ"}, ReadOf(h), WriteOf(h)), 1, h)
    BY <2>2
  <2> HIDE DEF h
  <2>5. Built(Db!AddCharacteristic(e, 1, Short(name), PermsOf(h), {"READ"}, ReadOf(h),
                                   WriteOf(h)), 1, h)
    BY <1>3, <2>1, <2>3, <2>4, CharBuilt, Zenon
  <2> QED
    BY <2>5, <2>6
<1>4. Built(d1, 1, 3)
  <2>1. Built(d1, 1, 1 + 2)
    BY <1>2, <1>3
  <2> QED
    BY <2>1
<1> HIDE DEF d1
<1>5. Built(d2, 1, 5)
  <2>1. Built(d2, 1, 3 + 2)
    BY <1>3, <1>4
  <2> QED
    BY <2>1
<1> HIDE DEF d2
<1>6. Built(d3, 1, 7)
  <2>1. Built(d3, 1, 5 + 2)
    BY <1>3, <1>5
  <2> QED
    BY <2>1
<1> HIDE DEF d3, Char
<1>7. ASSUME NEW e, Built(e, 1, 7), NEW h \in {3, 5, 7}, NEW v \in Seq(Byte), Len(v) <= 19
      PROVE  Built(SetValue(e, h, v), 1, 7)
  <2>1. v \in Values(h)
    BY <1>7, SeqMonotonic DEF Values, Atom
  <2>2. Count(1, 1, 7) = 7
    BY DEF Count
  <2>3. /\ 1 \in 1 .. 1 /\ h \in 1 .. Count(1, 1, 7) /\ h = First(1) + h - 1 /\ 7 <= Size(1)
        /\ 1 \in 1 .. 4 /\ 7 \in 1 .. 7
    BY <1>1, <2>2
  <2> QED
    BY <1>7, <2>1, <2>3, SetKeeps, Zenon
<1>8. Built(d4, 1, 7)
  <2>1. <<87, 65, 76, 76, 67, 76, 79, 67, 75, 0>> \in Seq(Byte)
        /\ Len(<<87, 65, 76, 76, 67, 76, 79, 67, 75, 0>>) <= 19
    BY DEF Byte
  <2> QED
    BY <1>6, <1>7, <2>1
<1> HIDE DEF d4
<1>9. Built(d5, 1, 7)
  <2>1. <<0, 0>> \in Seq(Byte)
        /\ Len(<<0, 0>>) <= 19
    BY DEF Byte
  <2> QED
    BY <1>7, <1>8, <2>1
<1> HIDE DEF d5
<1>10. Built(d6, 1, 7)
  <2>1. <<6, 0, 8, 0, 0, 0, 250, 0>> \in Seq(Byte)
        /\ Len(<<6, 0, 8, 0, 0, 0, 250, 0>>) <= 19
    BY DEF Byte
  <2> QED
    BY <1>7, <1>9, <2>1
<1> HIDE DEF d6
<1>11. Full(Db!SetActive(d6, 1, TRUE), 1)
  <2>1. 1 \in 1 .. 4 /\ 7 = Size(1)
    BY <1>1
  <2> QED
    BY <1>10, <2>1, ActiveBuilt, Zenon
<1> QED
  BY <1>11 DEF PopulateGap, Char, d0, d1, d2, d3, d4, d5, d6

\* populate_gatt_service
LEMMA GattLayout ==
    ASSUME NEW d, Full(d, 1)
    PROVE  Full(PopulateGatt(d), 2)
<1> DEFINE d0 == Db!AddService(d, TRUE, Short("gatt"), 4)
           d1 == Db!AddCharacteristic(d0, 2, Short("svc_chngd"), {"READ"},
                    {"READ", "INDICATE"}, "svc_chngd", "stored")
           d2 == Db!AddDescriptor(d1, 2, Ccc, RW, "svc_ccc", "svc_ccc")
<1>1. Size(2) = 4 /\ First(2) = 8
  BY DEF Size, First
<1>2. Short("gatt") \in UuidSet /\ Short("svc_chngd") \in UuidsOf(10) /\ Ccc \in UuidsOf(11)
  BY DEF Short, Long, UuidSet, Names, Ccc, UuidsOf, Plain, Db!PRIMARY, Db!SECONDARY
<1>3. Built(d0, 2, 1)
  <2>1. 2 \in 1 .. 4 /\ 1 = 2 - 1 /\ 4 = Size(2)
    BY <1>1
  <2> QED
    BY <1>2, <2>1, ServiceBuilt, Zenon
<1> HIDE DEF d0
<1>4. Built(d1, 2, 3)
  <2>1. PermsOf(10) = {"READ"} /\ ReadOf(10) = "svc_chngd" /\ WriteOf(10) = "stored"
    BY DEF PermsOf, ReadOf, WriteOf
  <2>2. 10 = First(2) + 1 + 1 /\ 10 - 1 \notin {10, 11, 14, 15, 18} /\ 1 + 2 <= Size(2)
    BY <1>1
  <2>3. {"READ", "INDICATE"} \in SUBSET {"READ", "WRITE", "INDICATE", "NOTIFY",
                                         "WRITE_WITHOUT_RESP"}
    OBVIOUS
  <2>4. Built(Db!AddCharacteristic(d0, 2, Short("svc_chngd"), PermsOf(10),
                  {"READ", "INDICATE"}, ReadOf(10), WriteOf(10)), 2, 1 + 2)
    BY <1>2, <1>3, <2>2, <2>3, CharBuilt
  <2> QED
    BY <2>1, <2>4
<1> HIDE DEF d1
<1>5. Built(d2, 2, 4)
  <2>1. PermsOf(11) = RW /\ ReadOf(11) = "svc_ccc" /\ WriteOf(11) = "svc_ccc"
    BY DEF PermsOf, ReadOf, WriteOf
  <2>2. 11 = First(2) + 3 /\ 3 + 1 <= Size(2)
    BY <1>1
  <2>3. Built(Db!AddDescriptor(d1, 2, Ccc, PermsOf(11), ReadOf(11), WriteOf(11)), 2, 3 + 1)
    BY <1>2, <1>4, <2>2, DescBuilt
  <2> QED
    BY <2>1, <2>3
<1> HIDE DEF d2
<1>6. Full(Db!SetActive(d2, 2, TRUE), 2)
  <2>1. 2 \in 1 .. 4 /\ 4 = Size(2)
    BY <1>1
  <2> QED
    BY <1>5, <2>1, ActiveBuilt, Zenon
<1> QED
  BY <1>6 DEF PopulateGatt, d0, d1, d2

\* populate_clock_read_service
LEMMA ClockReadLayout ==
    ASSUME NEW d, Full(d, 2)
    PROVE  Full(PopulateClockRead(d), 3)
<1> DEFINE d0 == Db!AddService(d, TRUE, Long("i2c_read"), 4)
           d1 == Db!AddCharacteristic(d0, 3, Long("i2c_read_data"), RW,
                    {"NOTIFY"}, "stored", "stored")
           d2 == Db!AddDescriptor(d1, 3, Ccc, RW, "clock_ccc", "clock_ccc")
<1>1. Size(3) = 4 /\ First(3) = 12
  BY DEF Size, First
<1>2. Long("i2c_read") \in UuidSet /\ Long("i2c_read_data") \in UuidsOf(14)
      /\ Ccc \in UuidsOf(15)
  BY DEF Short, Long, UuidSet, Names, Ccc, UuidsOf, Plain, Db!PRIMARY, Db!SECONDARY
<1>3. Built(d0, 3, 1)
  <2>1. 3 \in 1 .. 4 /\ 2 = 3 - 1 /\ 4 = Size(3)
    BY <1>1
  <2> QED
    BY <1>2, <2>1, ServiceBuilt, Zenon
<1> HIDE DEF d0
<1>4. Built(d1, 3, 3)
  <2>1. PermsOf(14) = RW /\ ReadOf(14) = "stored" /\ WriteOf(14) = "stored"
    BY DEF PermsOf, ReadOf, WriteOf
  <2>2. 14 = First(3) + 1 + 1 /\ 14 - 1 \notin {10, 11, 14, 15, 18} /\ 1 + 2 <= Size(3)
    BY <1>1
  <2>3. {"NOTIFY"} \in SUBSET {"READ", "WRITE", "INDICATE", "NOTIFY",
                               "WRITE_WITHOUT_RESP"}
    OBVIOUS
  <2>4. Built(Db!AddCharacteristic(d0, 3, Long("i2c_read_data"), PermsOf(14),
                  {"NOTIFY"}, ReadOf(14), WriteOf(14)), 3, 1 + 2)
    BY <1>2, <1>3, <2>2, <2>3, CharBuilt
  <2> QED
    BY <2>1, <2>4
<1> HIDE DEF d1
<1>5. Built(d2, 3, 4)
  <2>1. PermsOf(15) = RW /\ ReadOf(15) = "clock_ccc" /\ WriteOf(15) = "clock_ccc"
    BY DEF PermsOf, ReadOf, WriteOf
  <2>2. 15 = First(3) + 3 /\ 3 + 1 <= Size(3)
    BY <1>1
  <2>3. Built(Db!AddDescriptor(d1, 3, Ccc, PermsOf(15), ReadOf(15), WriteOf(15)), 3, 3 + 1)
    BY <1>2, <1>4, <2>2, DescBuilt
  <2> QED
    BY <2>1, <2>3
<1> HIDE DEF d2
<1>6. Full(Db!SetActive(d2, 3, TRUE), 3)
  <2>1. 3 \in 1 .. 4 /\ 4 = Size(3)
    BY <1>1
  <2> QED
    BY <1>5, <2>1, ActiveBuilt, Zenon
<1> QED
  BY <1>6 DEF PopulateClockRead, d0, d1, d2

\* populate_clock_write_service
LEMMA ClockWriteLayout ==
    ASSUME NEW d, Full(d, 3)
    PROVE  Full(PopulateClockWrite(d), 4)
<1> DEFINE d0 == Db!AddService(d, TRUE, Long("i2c_write"), 3)
           d1 == Db!AddCharacteristic(d0, 4, Long("i2c_write_data"),
                    {"WRITE"}, {"WRITE_WITHOUT_RESP"}, "stored", "clock")
<1>1. Size(4) = 3 /\ First(4) = 16
  BY DEF Size, First
<1>2. Long("i2c_write") \in UuidSet /\ Long("i2c_write_data") \in UuidsOf(18)
  BY DEF Long, UuidSet, Names, UuidsOf, Plain, Db!PRIMARY, Db!SECONDARY
<1>3. Built(d0, 4, 1)
  <2>1. 4 \in 1 .. 4 /\ 3 = 4 - 1 /\ 3 = Size(4)
    BY <1>1
  <2> QED
    BY <1>2, <2>1, ServiceBuilt, Zenon
<1> HIDE DEF d0
<1>4. Built(d1, 4, 3)
  <2>1. PermsOf(18) = {"WRITE"} /\ ReadOf(18) = "stored" /\ WriteOf(18) = "clock"
    BY DEF PermsOf, ReadOf, WriteOf
  <2>2. 18 = First(4) + 1 + 1 /\ 18 - 1 \notin {10, 11, 14, 15, 18} /\ 1 + 2 <= Size(4)
    BY <1>1
  <2>3. {"WRITE_WITHOUT_RESP"} \in SUBSET {"READ", "WRITE", "INDICATE", "NOTIFY",
                                           "WRITE_WITHOUT_RESP"}
    OBVIOUS
  <2>4. Built(Db!AddCharacteristic(d0, 4, Long("i2c_write_data"), PermsOf(18),
                  {"WRITE_WITHOUT_RESP"}, ReadOf(18), WriteOf(18)), 4, 1 + 2)
    BY <1>2, <1>3, <2>2, <2>3, CharBuilt
  <2> QED
    BY <2>1, <2>4
<1> HIDE DEF d1
<1>5. Full(Db!SetActive(d1, 4, TRUE), 4)
  <2>1. 4 \in 1 .. 4 /\ 3 = Size(4)
    BY <1>1
  <2> QED
    BY <1>4, <2>1, ActiveBuilt, Zenon
<1> QED
  BY <1>5 DEF PopulateClockWrite, d0, d1

\* populate_db
LEMMA PopulatedLayout == Layout(Populated)
<1>1. Full(Db!NewDb, 0)
  <2>1. Db!NewDb = [services |-> <<>>, next_handle |-> 1]
    BY DEF Db!NewDb
  <2>2. <<>> \in Seq(Service) /\ Len(<<>>) = 0 /\ First(0 + 1) = 1
    BY DEF First
  <2> QED
    BY <2>1, <2>2 DEF Full, Built, Databases
<1> QED
  BY <1>1, GapLayout, GattLayout, ClockReadLayout, ClockWriteLayout DEF Populated, Layout

-----------------------------------------------------------------------------
(* Attributes *)

\* The service of a handle and the place in it
ServiceOf(h) == IF h < 8 THEN 1 ELSE IF h < 12 THEN 2 ELSE IF h < 16 THEN 3 ELSE 4
Place(h) == h - First(ServiceOf(h)) + 1
Attr(d, h) == d.services[ServiceOf(h)].attributes[Place(h)]

\* Each handle has its place in its service.
LEMMA Places ==
    ASSUME NEW h \in 1 .. 18
    PROVE  /\ ServiceOf(h) \in 1 .. 4 /\ Place(h) \in 1 .. Size(ServiceOf(h))
           /\ h = First(ServiceOf(h)) + Place(h) - 1
           /\ h \in First(ServiceOf(h)) .. First(ServiceOf(h)) + Size(ServiceOf(h)) - 1
BY DEF ServiceOf, Place, First, Size

\* The services, once all are there.
LEMMA LayoutServices ==
    ASSUME NEW d, Layout(d), NEW j \in 1 .. 4
    PROVE  /\ Built(d, 4, 3) /\ d.services \in Seq(Service) /\ DOMAIN d.services = 1 .. 4
           /\ Len(d.services) = 4 /\ d.services[j].active
           /\ d.services[j] \in Service /\ Holds(d.services[j], j, Size(j))
           /\ Db!Start(d.services[j]) = First(j)
           /\ Db!End(d.services[j]) = First(j) + Size(j) - 1
           /\ d.services[j].attributes \in Seq(Attributes)
           /\ Len(d.services[j].attributes) = Size(j)
           /\ DOMAIN d.services[j].attributes = 1 .. Size(j)
<1>1. Built(d, 4, 3) /\ d.services[4].active
  BY DEF Layout, Full, Size
<1>2. /\ d.services \in Seq(Service) /\ Len(d.services) = 4 /\ DOMAIN d.services = 1 .. 4
      /\ d.services[j].active
  <2>1. d.services \in Seq(Service) /\ Len(d.services) = 4
    BY <1>1 DEF Built, Databases
  <2>2. j = 4 \/ j \in 1 .. 4 - 1
    OBVIOUS
  <2> QED
    BY <1>1, <2>1, <2>2, LenProperties DEF Built
<1>3. 4 \in 1 .. 4 /\ 3 \in 1 .. 7 /\ 3 <= Size(4) /\ Count(j, 4, 3) = Size(j)
  BY DEF Size, Count
<1>4. /\ d.services[j] \in Service /\ Holds(d.services[j], j, Count(j, 4, 3))
      /\ Db!Start(d.services[j]) = First(j)
      /\ Db!End(d.services[j]) = First(j) + Size(j) - 1
      /\ d.services[j].attributes \in Seq(Attributes)
  BY <1>1, <1>3, BuiltServices, Zenon
<1>5. Len(d.services[j].attributes) = Size(j)
  BY <1>3, <1>4 DEF Holds
<1>6. DOMAIN d.services[j].attributes = 1 .. Size(j)
  BY <1>4, <1>5, LenProperties
<1> QED
  BY <1>1, <1>2, <1>3, <1>4, <1>5, <1>6

\* The attribute of a handle.
LEMMA AttrKind ==
    ASSUME NEW d, Layout(d), NEW h \in 1 .. 18
    PROVE  Attr(d, h) \in Kind(h) /\ Attr(d, h) \in Attributes /\ Attr(d, h).handle = h
<1> DEFINE j == ServiceOf(h)
           i == Place(h)
<1>1. j \in 1 .. 4 /\ i \in 1 .. Size(j) /\ First(j) + i - 1 = h
  BY Places
<1> HIDE DEF i, j
<1>2. d.services[j].attributes[i] \in Kind(First(j) + i - 1)
  BY <1>1, LayoutServices DEF Holds
<1>3. Attr(d, h) \in Kind(h)
  BY <1>1, <1>2 DEF Attr, i, j
<1>4. Attr(d, h).handle = h
  BY <1>3 DEF Kind
<1> QED
  BY <1>3, <1>4, KindType

\* Each handle of service j is found at its place.
LEMMA AttrPlaces ==
    ASSUME NEW d, Layout(d), NEW j \in 1 .. 4, NEW i \in 1 .. Size(j), NEW h,
           h = First(j) + i - 1
    PROVE  /\ h \in 1 .. 18 /\ Attr(d, h) = d.services[j].attributes[i]
           /\ ServiceOf(h) = j /\ Place(h) = i
<1>1. h \in 1 .. 18 /\ ServiceOf(h) = j
  BY DEF First, Size, ServiceOf
<1>2. First(j) \in Int /\ i \in Int
  BY DEF First, Size
<1>3. Place(h) = i
  BY <1>1, <1>2 DEF Place
<1> QED
  BY <1>1, <1>3 DEF Attr

\* gatt_db_get_service
LEMMA ServiceFound ==
    ASSUME NEW d, Layout(d), NEW h
    PROVE  /\ h \in 1 .. 18 => /\ Db!Holding(d, h) = {ServiceOf(h)}
                               /\ Db!GetService(d, h) = d.services[ServiceOf(h)]
           /\ h \notin 1 .. 18 => Db!Holding(d, h) = {}
<1>1. ASSUME NEW j \in 1 .. 4
      PROVE  /\ Db!Start(d.services[j]) = First(j)
             /\ Db!End(d.services[j]) = First(j) + Size(j) - 1
             /\ DOMAIN d.services = 1 .. 4
  BY LayoutServices
<1>2. ASSUME h \in 1 .. 18
      PROVE  /\ Db!Holding(d, h) = {ServiceOf(h)}
             /\ Db!GetService(d, h) = d.services[ServiceOf(h)]
  <2>1. ASSUME NEW j \in 1 .. 4
        PROVE  h \in Db!Start(d.services[j]) .. Db!End(d.services[j]) <=> j = ServiceOf(h)
    BY <1>1, <1>2 DEF ServiceOf, First, Size
  <2>2. ServiceOf(h) \in 1 .. 4
    BY <1>2, Places
  <2>3. Db!Holding(d, h) = {ServiceOf(h)}
    BY <1>1, <2>1, <2>2 DEF Db!Holding
  <2>4. Db!Min({ServiceOf(h)}) = ServiceOf(h)
    BY <2>2 DEF Db!Min
  <2>5. {ServiceOf(h)} # {}
    OBVIOUS
  <2> QED
    BY <2>3, <2>4, <2>5 DEF Db!GetService
<1>3. ASSUME h \notin 1 .. 18 PROVE Db!Holding(d, h) = {}
  <2>1. ASSUME NEW j \in 1 .. 4
        PROVE  ~(h \in Db!Start(d.services[j]) .. Db!End(d.services[j]))
    <3>1. /\ First(j) \in 1 .. 18 /\ First(j) + Size(j) - 1 \in 1 .. 18
      BY DEF First, Size
    <3> QED
      BY <1>1, <1>3, <3>1
  <2> QED
    BY <1>1, <2>1 DEF Db!Holding
<1> QED
  BY <1>2, <1>3

\* gatt_db_get_attribute
LEMMA AttributeFound ==
    ASSUME NEW d, Layout(d), NEW h
    PROVE  Db!GetAttribute(d, h) = IF h \in 1 .. 18 THEN Attr(d, h) ELSE None
<1>1. CASE h \in 1 .. 18
  <2> DEFINE j == ServiceOf(h)
             s == d.services[j]
             At0(x) == {i \in DOMAIN x.attributes : x.attributes[i].handle = h}
             found == {x \in {s} : At0(x) # {}}
  <2>1. j \in 1 .. 4 /\ Place(h) \in 1 .. Size(j) /\ First(j) + Place(h) - 1 = h
    BY <1>1, Places
  <2>2. Db!Holding(d, h) = {j} /\ Db!GetService(d, h) = s
    BY <1>1, ServiceFound
  <2>3. DOMAIN s.attributes = 1 .. Size(j)
    BY <2>1, LayoutServices
  <2> HIDE DEF j
  <2>4. ASSUME NEW i \in 1 .. Size(j) PROVE s.attributes[i].handle = h <=> i = Place(h)
    <3>1. s.attributes[i] \in Kind(First(j) + i - 1)
      BY <2>1, LayoutServices DEF Holds
    <3>2. s.attributes[i].handle = First(j) + i - 1
      BY <3>1 DEF Kind
    <3>3. First(j) \in Int /\ Size(j) \in Int
      BY DEF First, Size
    <3> QED
      BY <2>1, <3>2, <3>3
  <2>5. At0(s) = {Place(h)}
    BY <2>1, <2>3, <2>4
  <2>6. Db!Min({Place(h)}) = Place(h)
    <3>1. Place(h) \in Int
      BY <1>1 DEF Place, First, ServiceOf
    <3> QED
      BY <3>1 DEF Db!Min
  <2>7. Db!GetAttribute(d, h)
            = CHOOSE a \in {x.attributes[Db!Min(At0(x))] : x \in found} : TRUE
    <3>1. {j} # {} /\ found # {}
      BY <2>5
    <3> QED
      BY <2>2, <3>1 DEF Db!GetAttribute
  <2>8. {x.attributes[Db!Min(At0(x))] : x \in found} = {s.attributes[Place(h)]}
    <3>1. found = {s}
      BY <2>5
    <3> HIDE DEF found, At0, s
    <3> QED
      BY <2>5, <2>6, <3>1
  <2> QED
    BY <1>1, <2>7, <2>8 DEF Attr, j
<1>2. CASE h \notin 1 .. 18
  BY <1>2, ServiceFound DEF Db!GetAttribute
<1> QED
  BY <1>1, <1>2

\* A new value of one attribute leaves the others.
LEMMA SetAttr ==
    ASSUME NEW d, Layout(d), NEW h \in 1 .. 18, NEW v \in Values(h)
    PROVE  LET e == SetValue(d, h, v)
           IN  /\ Layout(e)
               /\ Attr(e, h) = [Attr(d, h) EXCEPT !.value = v]
               /\ \A g \in 1 .. 18 : g # h => Attr(e, g) = Attr(d, g)
<1> DEFINE e == SetValue(d, h, v)
           j == ServiceOf(h)
           i == Place(h)
<1>1. j \in 1 .. 4 /\ i \in 1 .. Size(j) /\ h = First(j) + i - 1
  BY Places
<1>2. Built(d, 4, 3) /\ d.services[4].active
  BY LayoutServices
<1>3. 4 \in 1 .. 4 /\ 3 \in 1 .. 7 /\ 3 <= Size(4) /\ Count(j, 4, 3) = Size(j)
  BY DEF Size, Count
<1>4. /\ Built(e, 4, 3)
      /\ \A l \in 1 .. 4 : /\ e.services[l].active = d.services[l].active
                           /\ l # j => e.services[l] = d.services[l]
      /\ \A m \in 1 .. Size(j) : e.services[j].attributes[m]
            = IF m = i THEN [d.services[j].attributes[m] EXCEPT !.value = v]
              ELSE d.services[j].attributes[m]
  <2> DEFINE k4 == 4
             n3 == 3
  <2> HIDE DEF i, j
  <2>1. i \in 1 .. Count(j, 4, 3)
    BY <1>1, <1>3
  <2>2. n3 \in 1 .. 7 /\ n3 <= Size(k4) /\ k4 \in 1 .. 4 /\ j \in 1 .. k4
        /\ Built(d, k4, n3) /\ i \in 1 .. Count(j, k4, n3)
    BY <1>1, <1>2, <1>3, <2>1
  <2> HIDE DEF k4, n3
  <2>3. Built(e, k4, n3) /\ OnlyValue(d, e, k4, Count(j, k4, n3), j, i, v)
    BY <1>1, <2>2, SetBuilt
  <2>4. k4 = 4 /\ n3 = 3
    BY DEF k4, n3
  <2> QED
    BY <1>3, <2>3, <2>4 DEF OnlyValue
<1> HIDE DEF e
<1>5. Layout(e)
  BY <1>2, <1>4 DEF Layout, Full, Size
<1>6. ASSUME NEW g \in 1 .. 18
      PROVE  Attr(e, g) = IF g = h THEN [Attr(d, h) EXCEPT !.value = v] ELSE Attr(d, g)
  <2> DEFINE l == ServiceOf(g)
             m == Place(g)
  <2>1. l \in 1 .. 4 /\ m \in 1 .. Size(l) /\ g = First(l) + m - 1
    BY Places
  <2>2. CASE l # j
    <3>1. g # h
      BY <2>2
    <3>2. e.services[l] = d.services[l]
      BY <1>4, <2>1, <2>2
    <3> QED
      BY <3>1, <3>2 DEF Attr
  <2>3. CASE l = j
    <3>1. g = h <=> m = i
      <4>1. First(j) \in Int /\ m \in Int /\ i \in Int
        BY DEF First, Place
      <4> QED
        BY <1>1, <2>1, <2>3, <4>1
    <3>2. e.services[j].attributes[m]
            = IF m = i THEN [d.services[j].attributes[m] EXCEPT !.value = v]
              ELSE d.services[j].attributes[m]
      BY <1>4, <2>1, <2>3
    <3>3. Attr(e, g) = e.services[j].attributes[m] /\ Attr(d, g) = d.services[j].attributes[m]
      BY <2>3 DEF Attr
    <3> QED
      BY <3>1, <3>2, <3>3
  <2> QED
    BY <2>2, <2>3
<1> QED
  BY <1>5, <1>6 DEF e

-----------------------------------------------------------------------------
(* Recursive functions *)

\* What a recursive function is, step by step.
Runs(f, D, n, b, g) ==
    f \in [0 .. n -> D] /\ f[0] = b /\ \A k \in 1 .. n : f[k] = g[k][f[k - 1]]
\* There is such a function, whatever the steps are.
LEMMA Recursion ==
    ASSUME NEW D, NEW n \in Nat, NEW b \in D, NEW g,
           \A k \in 1 .. n : \A x \in D : g[k][x] \in D
    PROVE  \E f : Runs(f, D, n, b, g)
<1> DEFINE Good(f, m) == /\ f \in [0 .. m -> D] /\ f[0] = b
                         /\ \A k \in 1 .. m : f[k] = g[k][f[k - 1]]
           T == {m \in 0 .. n : \E f : Good(f, m)}
<1>1. 0 \in T
  <2> DEFINE f == [k \in 0 .. 0 |-> b]
  <2>1. f \in [0 .. 0 -> D] /\ f[0] = b /\ 1 .. 0 = {} /\ 0 \in 0 .. n
    OBVIOUS
  <2> HIDE DEF f
  <2>2. Good(f, 0)
    BY <2>1
  <2> QED
    BY <2>1, <2>2
<1>2. ASSUME NEW m \in 0 .. n - 1, m \in T PROVE m + 1 \in T
  <2>1. PICK f : Good(f, m)
    BY <1>2
  <2> DEFINE e == [k \in 0 .. m + 1 |-> IF k <= m THEN f[k] ELSE g[m + 1][f[m]]]
  <2>2. g[m + 1][f[m]] \in D
    BY <2>1
  <2>3. e \in [0 .. m + 1 -> D] /\ e[0] = b
    BY <2>1, <2>2
  <2>4. ASSUME NEW k \in 1 .. m + 1 PROVE e[k] = g[k][e[k - 1]]
    <3>1. CASE k <= m
      <4>1. k \in 0 .. m + 1 /\ k - 1 \in 0 .. m + 1 /\ k - 1 <= m /\ k \in 1 .. m
        BY <3>1
      <4>2. e[k] = f[k] /\ e[k - 1] = f[k - 1]
        BY <3>1, <4>1
      <4> QED
        BY <2>1, <4>1, <4>2
    <3>2. CASE k > m
      <4>1. k = m + 1 /\ k \in 0 .. m + 1 /\ m \in 0 .. m + 1 /\ k - 1 = m /\ ~(k <= m)
        BY <3>2
      <4>2. e[k] = g[m + 1][f[m]] /\ e[m] = f[m]
        BY <4>1
      <4> QED
        BY <4>1, <4>2
    <3> QED
      BY <3>1, <3>2
  <2> HIDE DEF e
  <2>5. Good(e, m + 1)
    BY <2>3, <2>4
  <2> QED
    BY <2>5
<1> HIDE DEF T
<1>3. n \in T
  <2>1. 0 .. n \subseteq T
    BY <1>1, <1>2, Counting
  <2> QED
    BY <2>1
<1>4. PICK f : Good(f, n)
  BY <1>3 DEF T
<1>5. Runs(f, D, n, b, g)
  BY <1>4 DEF Runs
<1> QED
  BY <1>5

-----------------------------------------------------------------------------
(* The state *)

\* What a client may have prepared
PrepEntry == [handle : {14}, offset : Word, value : Seq(0 .. 255)]

\* Two databases that differ at most in what clients write
Alike14(d, e) == \A h \in 1 .. 18 : h # 14 => Attr(e, h) = Attr(d, h)

\* The inductive invariant: the database is the one populate_db built but for
\* the value of handle 14, which a client may write, and a prepared write is
\* one of that value.
State ==
    /\ Layout(db)
    /\ flags \in [Cccs -> BOOLEAN]
    /\ mtu \in [server : Nat, att : Nat, client : Nat]
    /\ mtu.server >= DEFAULT_LE_MTU /\ mtu.att >= DEFAULT_LE_MTU
    /\ mtu.client >= DEFAULT_LE_MTU
    /\ prep \in Seq(PrepEntry) /\ Len(prep) <= MaxPrep
    /\ writes \in 0 .. MaxWrites

LEMMA WordNat == \A n \in Word : n \in Nat
BY SMTT(30) DEF Word

\* gatt_db_attribute_write leaves bytes, and fewer than value_len can count.
LEMMA StoredType ==
    ASSUME NEW old \in Values(14), NEW offset \in Word, NEW data \in Seq(0 .. 255)
    PROVE  Stored(old, offset, data) \in Values(14)
<1>1. /\ old \in Seq(Byte) /\ Len(old) \in Nat /\ Len(old) < LenMod /\ LenMod \in Nat \ {0}
      /\ Len(data) \in Nat /\ offset \in Nat
  <2>1. old \in Seq(Byte) /\ Len(old) < LenMod
    BY DEF Values
  <2>2. LenMod \in Nat \ {0}
    BY BoundsAssumption, ZenonT(30)
  <2>4. offset \in Nat
    BY WordNat, Zenon
  <2>3. Len(old) \in Nat /\ Len(data) \in Nat
    BY <2>1, LenProperties
  <2> QED
    BY <2>1, <2>2, <2>3, <2>4, Zenon
<1> DEFINE end == offset + Len(data)
           gap == IF old = <<>> THEN 0 ELSE UnknownByte
           At0(i) == IF i > offset /\ i <= end THEN data[i - offset]
                     ELSE IF i <= Len(old) THEN old[i] ELSE gap
           n == IF Grows(old, offset, data) THEN end % LenMod ELSE Len(old)
<1>2. n \in Nat /\ n < LenMod
  <2>1. end % LenMod \in 0 .. LenMod - 1
    BY <1>1
  <2> QED
    BY <1>1, <2>1
<1>3. ASSUME NEW i \in 1 .. n PROVE At0(i) \in Byte
  <2>1. gap \in Byte
    BY DEF Byte, UnknownByte
  <2>2. ASSUME i > offset, i <= end PROVE data[i - offset] \in Byte
    <3>1. i - offset \in 1 .. Len(data)
      BY <1>1, <1>2, <2>2
    <3>2. data[i - offset] \in 0 .. 255
      BY <3>1, ElementOfSeq
    <3>3. 0 .. 255 \subseteq Byte
      BY DEF Byte
    <3> QED
      BY <3>2, <3>3
  <2>3. i <= Len(old) => old[i] \in Byte
    BY <1>1, <1>2
  <2> QED
    BY <2>1, <2>2, <2>3
<1> HIDE DEF At0, n
<1>4. [i \in 1 .. n |-> At0(i)] \in Seq(Byte) /\ Len([i \in 1 .. n |-> At0(i)]) = n
  BY <1>2, <1>3
<1>5. Stored(old, offset, data) = old
      \/ Stored(old, offset, data) = [i \in 1 .. n |-> At0(i)]
  BY DEF Stored, At0, n
<1> QED
  BY <1>1, <1>2, <1>4, <1>5 DEF Values

\* A new value of handle 14 leaves the rest.
LEMMA SetData ==
    ASSUME NEW d, Layout(d), NEW v \in Values(14)
    PROVE  Layout(SetValue(d, 14, v)) /\ Alike14(d, SetValue(d, 14, v))
<1>1. 14 \in 1 .. 18
  OBVIOUS
<1> QED
  BY <1>1, SetAttr DEF Alike14

\* What gatt_db_get_attribute finds in the database of the server.
LEMMA AtHandle ==
    ASSUME Layout(db), NEW h
    PROVE  /\ At(h) = IF h \in 1 .. 18 THEN Attr(db, h) ELSE None
           /\ h \in 1 .. 18 => At(h) \in Kind(h)
BY AttributeFound, AttrKind DEF At

\* Only one stored value may be written.
LEMMA WritableIsData ==
    ASSUME Layout(db), NEW h, At(h) # None, Permits(At(h), "WRITE"), At(h).write = "stored"
    PROVE  h = 14 /\ At(h).handle = 14 /\ At(h).value \in Values(14)
<1>1. h \in 1 .. 18 /\ At(h) \in Kind(h)
  BY AtHandle
<1>2. At(h).perms = PermsOf(h) /\ At(h).write = WriteOf(h) /\ At(h).handle = h
      /\ At(h).value \in Values(h)
  BY <1>1 DEF Kind
<1>3. "WRITE" \in PermsOf(h)
  <2>1. PermsOf(h) # {}
    BY DEF PermsOf, RW
  <2> QED
    BY <1>2, <2>1 DEF Permits
<1>4. h \in {11, 14, 15, 18}
  BY <1>1, <1>3 DEF PermsOf
<1>5. h = 14
  BY <1>2, <1>4 DEF WriteOf
<1> QED
  BY <1>2, <1>5

\* gatt_db_attribute_write
LEMMA WriteKeeps ==
    ASSUME State, NEW h, At(h) # None, Permits(At(h), "WRITE"),
           NEW value \in Seq(0 .. 255), Write(At(h), 0, value)
    PROVE  Layout(db') /\ Alike14(db, db') /\ flags' \in [Cccs -> BOOLEAN]
<1>1. Layout(db) /\ flags \in [Cccs -> BOOLEAN]
  BY DEF State
<1>2. flags' \in [Cccs -> BOOLEAN]
  BY <1>1 DEF Write
<1>3. CASE At(h).write = "stored"
  <2>1. h = 14 /\ At(h).handle = 14 /\ At(h).value \in Values(14)
    BY <1>1, <1>3, WritableIsData
  <2>2. 0 \in Word
    BY DEF Word
  <2> DEFINE v == Stored(At(h).value, 0, value)
  <2>3. v \in Values(14)
    BY <2>1, <2>2, StoredType
  <2>4. db' = SetValue(db, 14, v)
    BY <1>3, <2>1 DEF Write
  <2> QED
    BY <1>1, <1>2, <2>3, <2>4, SetData
<1>4. CASE At(h).write # "stored"
  BY <1>1, <1>2, <1>4 DEF Write, Alike14
<1> QED
  BY <1>3, <1>4

\* The databases the entries of an Execute Write lead to
Upto(f, d, q) ==
    LET WriteOne(e, p) == SetValue(e, p.handle,
            Stored(Db!GetAttribute(e, p.handle).value, p.offset, p.value))
    IN  f = [n \in 0 .. Len(q) |-> IF n = 0 THEN d ELSE WriteOne(f[n - 1], q[n])]

\* WriteAll has a value.
LEMMA UptoExists ==
    ASSUME NEW d, Layout(d), NEW q \in Seq(PrepEntry)
    PROVE  \E f : Upto(f, d, q)
<1> DEFINE D == {e \in Databases : Layout(e)}
           WriteOne(e, p) == SetValue(e, p.handle,
               Stored(Db!GetAttribute(e, p.handle).value, p.offset, p.value))
           N == Len(q)
           g == [k \in 1 .. N |-> [e \in D |-> WriteOne(e, q[k])]]
<1>1. N \in Nat /\ \A k \in 1 .. N : q[k] \in PrepEntry
  BY LenProperties, ElementOfSeq
<1>2. \A e : Layout(e) => e \in D
  BY DEF Layout, Full, Built
<1>3. ASSUME NEW k \in 1 .. N, NEW e \in D PROVE WriteOne(e, q[k]) \in D
  <2> DEFINE p == q[k]
             v == Stored(Db!GetAttribute(e, 14).value, p.offset, p.value)
  <2>1. p.handle = 14 /\ p.offset \in Word /\ p.value \in Seq(0 .. 255)
    BY <1>1 DEF PrepEntry
  <2>2. Layout(e) /\ 14 \in 1 .. 18
    BY <1>3
  <2>3. Db!GetAttribute(e, 14) = Attr(e, 14) /\ Attr(e, 14) \in Kind(14)
    BY <2>2, AttributeFound, AttrKind
  <2>4. Db!GetAttribute(e, 14).value \in Values(14)
    BY <2>3 DEF Kind
  <2>5. v \in Values(14)
    BY <2>1, <2>4, StoredType
  <2>6. WriteOne(e, p) = SetValue(e, 14, v)
    BY <2>1
  <2> HIDE DEF v
  <2> QED
    BY <1>2, <2>2, <2>5, <2>6, SetData
<1> HIDE DEF WriteOne
<1>4. \A k \in 1 .. N : \A e \in D : g[k][e] = WriteOne(e, q[k]) /\ g[k][e] \in D
  BY <1>3
<1>5. d \in D
  BY <1>2
<1> HIDE DEF g, D, N
<1>6. PICK f \in [0 .. N -> D] : f[0] = d /\ \A k \in 1 .. N : f[k] = g[k][f[k - 1]]
  <2>1. N \in Nat /\ \A k \in 1 .. N : \A x \in D : g[k][x] \in D
    BY <1>1, <1>4
  <2>2. \E f : Runs(f, D, N, d, g)
    BY <1>5, <2>1, Recursion
  <2> QED
    BY <2>2 DEF Runs
<1>7. \A k \in 1 .. N : f[k] = WriteOne(f[k - 1], q[k])
  <2>1. \A k \in 1 .. N : k - 1 \in 0 .. N
    BY <1>1
  <2> QED
    BY <1>4, <1>6, <2>1
<1>8. f = [n \in 0 .. N |-> IF n = 0 THEN d ELSE WriteOne(f[n - 1], q[n])]
  <2>1. \A n \in 0 .. N : f[n] = IF n = 0 THEN d ELSE WriteOne(f[n - 1], q[n])
    BY <1>1, <1>6, <1>7
  <2> QED
    BY <1>6, <2>1
<1>9. Upto(f, d, q)
  BY <1>8 DEF Upto, WriteOne, N
<1> QED
  BY <1>9

\* exec_next_prep_write: whatever is prepared, only handle 14 changes.
LEMMA WriteAllKeeps ==
    ASSUME State, WriteAll
    PROVE  Layout(db') /\ Alike14(db, db') /\ flags' = flags
<1> DEFINE WriteOne(e, p) == SetValue(e, p.handle,
               Stored(Db!GetAttribute(e, p.handle).value, p.offset, p.value))
           f == CHOOSE x : Upto(x, db, prep)
           N == Len(prep)
           T == {n \in 0 .. N : Layout(f[n]) /\ Alike14(db, f[n])}
<1>1. /\ Layout(db) /\ prep \in Seq(PrepEntry) /\ N \in Nat
      /\ \A k \in 1 .. N : prep[k] \in PrepEntry
  BY LenProperties, ElementOfSeq DEF State
<1>2. Upto(f, db, prep)
  BY <1>1, UptoExists
<1>3. db' = f[N] /\ flags' = flags
  BY DEF WriteAll, Upto
<1> HIDE DEF f
<1>4. \A n \in 0 .. N : f[n] = IF n = 0 THEN db ELSE WriteOne(f[n - 1], prep[n])
  <2>1. f = [n \in 0 .. N |-> IF n = 0 THEN db ELSE WriteOne(f[n - 1], prep[n])]
    BY <1>2 DEF Upto
  <2> HIDE DEF WriteOne
  <2> QED
    BY <2>1
<1>5. 0 \in T
  <2>1. f[0] = db /\ 0 \in 0 .. N
    BY <1>1, <1>4
  <2> QED
    BY <1>1, <2>1 DEF Alike14
<1>6. ASSUME NEW n \in 0 .. N - 1, n \in T PROVE n + 1 \in T
  <2> DEFINE e == f[n]
             p == prep[n + 1]
             v == Stored(Db!GetAttribute(e, 14).value, p.offset, p.value)
  <2>1. n + 1 \in 1 .. N /\ n + 1 \in 0 .. N /\ (n + 1) - 1 = n /\ n + 1 # 0
    BY <1>1
  <2>2. p.handle = 14 /\ p.offset \in Word /\ p.value \in Seq(0 .. 255)
    BY <1>1, <2>1 DEF PrepEntry
  <2>3. f[n + 1] = WriteOne(f[(n + 1) - 1], prep[n + 1])
    <3> HIDE DEF WriteOne
    <3> QED
      BY <1>4, <2>1
  <2>4. Layout(e) /\ Alike14(db, e) /\ 14 \in 1 .. 18
    BY <1>6
  <2>5. Db!GetAttribute(e, 14) = Attr(e, 14) /\ Attr(e, 14) \in Kind(14)
    BY <2>4, AttributeFound, AttrKind
  <2>6. v \in Values(14)
    <3>1. Db!GetAttribute(e, 14).value \in Values(14)
      BY <2>5 DEF Kind
    <3> QED
      BY <2>2, <3>1, StoredType
  <2>7. f[n + 1] = SetValue(e, 14, v)
    BY <2>1, <2>2, <2>3
  <2> HIDE DEF v, e
  <2>8. Layout(f[n + 1]) /\ Alike14(e, f[n + 1])
    BY <2>4, <2>6, <2>7, SetData
  <2>9. Alike14(db, f[n + 1])
    BY <2>4, <2>8 DEF Alike14
  <2> QED
    BY <2>1, <2>8, <2>9
<1> HIDE DEF T
<1>7. 0 .. N \subseteq T
  BY <1>1, <1>5, <1>6, Counting
<1>8. N \in T
  BY <1>1, <1>7
<1> QED
  BY <1>3, <1>8 DEF T

\* MIN and MAX of gatt-server.c
LEMMA Extremes ==
    ASSUME NEW a \in Int, NEW b \in Int
    PROVE  /\ Min({a, b}) = IF a <= b THEN a ELSE b
           /\ Max({a, b}) = IF a <= b THEN b ELSE a
<1>1. \A x \in {a, b} : (\A y \in {a, b} : x <= y) <=> x = IF a <= b THEN a ELSE b
  OBVIOUS
<1>2. \A x \in {a, b} : (\A y \in {a, b} : x >= y) <=> x = IF a <= b THEN b ELSE a
  OBVIOUS
<1> QED
  BY <1>1, <1>2 DEF Min, Max

\* The queue of prepared writes.
LEMMA PrepKept ==
    ASSUME State, NEW req, req.offset \in Word, req.value \in Seq(0 .. 255),
           req.handle = 14, Len(prep) < MaxPrep
    PROVE  StorePrepData(req) \in Seq(PrepEntry) /\ Len(StorePrepData(req)) <= MaxPrep
<1>1. prep \in Seq(PrepEntry) /\ Len(prep) \in Nat /\ MaxPrep \in Nat
  BY LenProperties, BoundsAssumption DEF State
<1>2. CASE prep # <<>> /\ Continues(Last(prep), req)
  <2> DEFINE n == Len(prep)
             p == prep[n]
             r == [p EXCEPT !.value = p.value \o req.value]
  <2>1. n \in 1 .. Len(prep) /\ p \in PrepEntry
    BY <1>1, <1>2, EmptySeq
  <2>2. r \in PrepEntry
    BY <2>1, ConcatProperties DEF PrepEntry
  <2>3. StorePrepData(req) = [prep EXCEPT ![n] = r]
    BY <1>2 DEF StorePrepData
  <2> HIDE DEF r
  <2>4. [prep EXCEPT ![n] = r] \in Seq(PrepEntry) /\ Len([prep EXCEPT ![n] = r]) = n
    BY <1>1, <2>1, <2>2, ExceptSeq
  <2> QED
    BY <1>1, <2>3, <2>4
<1>3. CASE ~(prep # <<>> /\ Continues(Last(prep), req))
  <2> DEFINE r == [handle |-> req.handle, offset |-> req.offset, value |-> req.value]
  <2>1. StorePrepData(req) = Append(prep, r)
    BY <1>3 DEF StorePrepData
  <2>2. r \in PrepEntry
    BY DEF PrepEntry
  <2> HIDE DEF r
  <2>3. Append(prep, r) \in Seq(PrepEntry) /\ Len(Append(prep, r)) = Len(prep) + 1
    BY <1>1, <2>2, AppendProperties
  <2> QED
    BY <1>1, <2>1, <2>3
<1> QED
  BY <1>2, <1>3

-----------------------------------------------------------------------------
(* The invariant *)

\* populate_db and bt_gatt_server_new.
LEMMA InitState == Init => State
<1> SUFFICES ASSUME Init PROVE State
  OBVIOUS
<1>1. Layout(db)
  BY PopulatedLayout DEF Init
<1>2. Max({MtuArgument, DEFAULT_LE_MTU}) \in Nat
      /\ Max({MtuArgument, DEFAULT_LE_MTU}) >= DEFAULT_LE_MTU
  <2>1. MtuArgument \in Nat /\ MtuArgument \in Int /\ DEFAULT_LE_MTU \in Int
    BY BoundsAssumption DEF DEFAULT_LE_MTU
  <2>2. Max({MtuArgument, DEFAULT_LE_MTU})
            = IF MtuArgument <= DEFAULT_LE_MTU THEN DEFAULT_LE_MTU ELSE MtuArgument
    BY <2>1, Extremes
  <2> QED
    BY <2>1, <2>2 DEF DEFAULT_LE_MTU
<1>3. /\ mtu \in [server : Nat, att : Nat, client : Nat]
      /\ mtu.server >= DEFAULT_LE_MTU /\ mtu.att >= DEFAULT_LE_MTU
      /\ mtu.client >= DEFAULT_LE_MTU
  <2> DEFINE m == Max({MtuArgument, DEFAULT_LE_MTU})
  <2>1. mtu = [server |-> m, att |-> DEFAULT_LE_MTU, client |-> DEFAULT_LE_MTU]
    BY DEF Init
  <2> HIDE DEF m
  <2>2. m \in Nat /\ m >= DEFAULT_LE_MTU
    BY <1>2 DEF m
  <2> QED
    BY <2>1, <2>2 DEF DEFAULT_LE_MTU
<1>4. flags \in [Cccs -> BOOLEAN]
  BY DEF Init
<1>5. prep \in Seq(PrepEntry) /\ Len(prep) <= MaxPrep /\ writes \in 0 .. MaxWrites
  BY BoundsAssumption DEF Init
<1> QED
  BY <1>1, <1>3, <1>4, <1>5 DEF State

\* What bt_att lets through.
LEMMA RequestTypes ==
    ASSUME NEW req \in Requests
    PROVE  /\ req.op \in Opcodes \cup {"MALFORMED"}
           /\ req.op \in {"READ_BY_GROUP", "READ_BY_TYPE", "FIND_INFO",
                         "FIND_BY_TYPE_VALUE"} => req.start \in Word /\ req.end \in Word
           /\ req.op \in {"READ", "READ_BLOB", "PREP_WRITE"} => req.offset \in Word
           /\ req.op = "READ" => req.offset = 0
           /\ req.op = "READ_MULT" => req.handles \in Seq(Word) \ {<<>>}
           /\ req.op \in {"WRITE", "WRITE_CMD", "PREP_WRITE"} => req.value \in Seq(0 .. 255)
           /\ req.op = "MTU" => req.mtu \in Word
           /\ req.op = "MALFORMED" => req.of \in Opcodes
BY RequestsAssumption, Zenon

\* Every request keeps the invariant, and leaves what no client writes.
LEMMA StateKept ==
    ASSUME State, [Next]_vars
    PROVE  State' /\ Alike14(db, db')
<1> DEFINE Rest == UNCHANGED <<db, flags, mtu>>
           PrepGood == prep' \in Seq(PrepEntry) /\ Len(prep') <= MaxPrep
<1>1. /\ Layout(db) /\ flags \in [Cccs -> BOOLEAN]
      /\ mtu \in [server : Nat, att : Nat, client : Nat]
      /\ mtu.server >= DEFAULT_LE_MTU /\ mtu.att >= DEFAULT_LE_MTU
      /\ mtu.client >= DEFAULT_LE_MTU
      /\ prep \in Seq(PrepEntry) /\ Len(prep) <= MaxPrep
      /\ writes \in 0 .. MaxWrites /\ MaxWrites \in Nat /\ MaxPrep \in Nat
  BY BoundsAssumption DEF State
<1>2. Alike14(db, db)
  BY DEF Alike14
<1>3. Written => writes' \in 0 .. MaxWrites
  BY <1>1 DEF Written
<1>4. /\ prep' = prep => PrepGood
      /\ Forget => PrepGood
  <2>1. <<>> \in Seq(PrepEntry) /\ Len(<<>>) <= MaxPrep
    BY <1>1
  <2> QED
    BY <1>1, <2>1, Zenon DEF Forget
<1>5. ASSUME Rest, PrepGood, writes' \in 0 .. MaxWrites
      PROVE  State' /\ Alike14(db, db')
  BY <1>1, <1>2, <1>5 DEF State
<1>6. ASSUME NEW req \in Requests, Look(req)
      PROVE  State' /\ Alike14(db, db')
  BY <1>1, <1>4, <1>5, <1>6 DEF Look
<1>7. ASSUME NEW req \in Requests, ExchangeMtu(req)
      PROVE  State' /\ Alike14(db, db')
  <2> DEFINE final == Max({Min({req.mtu, mtu.server}), DEFAULT_LE_MTU})
  <2>1. final \in Nat /\ final >= DEFAULT_LE_MTU
    <3>1. req.mtu \in Nat
      <4>1. req.mtu \in Word
        BY <1>7, RequestTypes DEF ExchangeMtu
      <4>2. Word \subseteq Nat
        BY DEF Word
      <4> QED
        BY <4>1, <4>2
    <3>2. Min({req.mtu, mtu.server}) \in Nat
      BY <1>1, <3>1, Extremes
    <3> DEFINE m == Min({req.mtu, mtu.server})
    <3>3. m \in Int /\ DEFAULT_LE_MTU \in Int /\ final = Max({m, DEFAULT_LE_MTU})
      BY <3>2 DEF DEFAULT_LE_MTU
    <3> HIDE DEF m, final
    <3>4. final = IF m <= DEFAULT_LE_MTU THEN DEFAULT_LE_MTU ELSE m
      BY <3>3, Extremes
    <3> QED
      BY <3>3, <3>4 DEF DEFAULT_LE_MTU
  <2>2. PICK alloc \in Alloc :
            mtu' = [server |-> final, att |-> IF alloc THEN final ELSE mtu.att,
                    client |-> final]
    BY <1>7 DEF ExchangeMtu
  <2> HIDE DEF final
  <2>3. /\ mtu' \in [server : Nat, att : Nat, client : Nat]
        /\ mtu'.server >= DEFAULT_LE_MTU /\ mtu'.att >= DEFAULT_LE_MTU
        /\ mtu'.client >= DEFAULT_LE_MTU
    BY <1>1, <2>1, <2>2
  <2>4. UNCHANGED <<db, flags, prep, chunks, writes>>
    BY <1>7 DEF ExchangeMtu
  <2> QED
    BY <1>1, <1>2, <2>3, <2>4 DEF State
<1>8. ASSUME NEW req \in Requests, WriteRequest(req)
      PROVE  State' /\ Alike14(db, db')
  <2>1. /\ UNCHANGED <<mtu, prep>> /\ writes' \in 0 .. MaxWrites
        /\ req.value \in Seq(0 .. 255)
    <3>1. /\ UNCHANGED <<mtu, prep>> /\ Written /\ req.op \in {"WRITE", "WRITE_CMD"}
      BY <1>8, Zenon DEF WriteRequest
    <3>2. req.value \in Seq(0 .. 255)
      BY <3>1, RequestTypes
    <3> QED
      BY <1>3, <3>1, <3>2
  <2>2. Layout(db') /\ Alike14(db, db') /\ flags' \in [Cccs -> BOOLEAN]
    <3>1. CASE UNCHANGED <<db, flags>>
      BY <1>1, <1>2, <3>1
    <3>2. CASE /\ At(req.handle) # None /\ Permits(At(req.handle), "WRITE")
               /\ Write(At(req.handle), 0, req.value)
      BY <2>1, <3>2, WriteKeeps
    <3>3. \/ UNCHANGED <<db, flags>>
          \/ /\ At(req.handle) # None /\ Permits(At(req.handle), "WRITE")
             /\ Write(At(req.handle), 0, req.value)
      <4> DEFINE a == At(req.handle)
                 error == WriteError(a, 0, req.value)
      <4>1. \/ a = None /\ Refused(req, "INVALID_HANDLE")
            \/ a # None /\ ~Permits(a, "WRITE") /\ Refused(req, "WRITE_NOT_PERMITTED")
            \/ Refused(req, error)
            \/ Refused(req, "UNLIKELY")
            \/ a # None /\ Permits(a, "WRITE") /\ Made(req, a)
        BY <1>8, Zenon DEF WriteRequest
      <4> HIDE DEF error
      <4> QED
        BY <4>1 DEF Refused, Made
    <3> QED
      BY <3>1, <3>2, <3>3
  <2> QED
    BY <1>1, <2>1, <2>2 DEF State
<1>9. ASSUME NEW req \in Requests, Prepare(req)
      PROVE  State' /\ Alike14(db, db')
  <2>1. /\ Rest /\ writes' \in 0 .. MaxWrites /\ req.value \in Seq(0 .. 255)
        /\ req.offset \in Word
    <3>1. Rest /\ Written /\ req.op = "PREP_WRITE"
      BY <1>9 DEF Prepare
    <3> QED
      BY <1>3, <3>1, RequestTypes
  <2>2. \/ prep' = prep
        \/ /\ prep' = StorePrepData(req) /\ Len(prep) < MaxPrep
           /\ At(req.handle) # None /\ Permits(At(req.handle), "WRITE")
           /\ At(req.handle).write = "stored"
    <3>1. Len(prep) \in Nat
      BY <1>1, LenProperties
    <3> DEFINE a == At(req.handle)
    <3>2. \/ prep' = prep
          \/ /\ prep' = StorePrepData(req) /\ ~(Len(prep) >= MaxPrep)
             /\ a # None /\ ~~Permits(a, "WRITE") /\ a.write = "stored"
      BY <1>9, Zenon DEF Prepare
    <3> HIDE DEF a
    <3>3. \/ prep' = prep
          \/ /\ prep' = StorePrepData(req) /\ Len(prep) < MaxPrep
             /\ a # None /\ Permits(a, "WRITE") /\ a.write = "stored"
      BY <1>1, <3>1, <3>2
    <3> QED
      BY <3>3 DEF a
  <2>3. PrepGood
    <3>1. CASE prep' = prep
      BY <1>4, <3>1
    <3>2. CASE /\ prep' = StorePrepData(req) /\ Len(prep) < MaxPrep
               /\ At(req.handle) # None /\ Permits(At(req.handle), "WRITE")
               /\ At(req.handle).write = "stored"
      <4>1. req.handle = 14
        BY <1>1, <3>2, WritableIsData
      <4> QED
        BY <2>1, <3>2, <4>1, PrepKept
    <3> QED
      BY <2>2, <3>1, <3>2
  <2> QED
    BY <1>5, <2>1, <2>3
<1>10. ASSUME NEW req \in Requests, Execute(req)
       PROVE  State' /\ Alike14(db, db')
  <2>1. UNCHANGED mtu /\ writes' \in 0 .. MaxWrites /\ PrepGood
    BY <1>3, <1>4, <1>10 DEF Execute
  <2>2. WriteAll \/ UNCHANGED <<db, flags>>
    BY <1>10 DEF Execute
  <2>3. Layout(db') /\ Alike14(db, db') /\ flags' = flags
    BY <1>1, <1>2, <2>2, WriteAllKeeps
  <2> QED
    BY <1>1, <2>1, <2>3 DEF State
<1>11. ASSUME NEW req \in Requests, Malformed(req)
       PROVE  State' /\ Alike14(db, db')
  <2>1. Rest /\ writes' \in 0 .. MaxWrites /\ PrepGood
    BY <1>1, <1>4, <1>11 DEF Malformed
  <2> QED
    BY <1>5, <2>1
<1>12. CASE UNCHANGED vars
  BY <1>1, <1>4, <1>5, <1>12 DEF vars
<1> QED
  BY <1>6, <1>7, <1>8, <1>9, <1>10, <1>11, <1>12 DEF Next

\* The database and what is kept beside it stay in shape whatever clients send.
THEOREM StateHolds == Spec => []State
<1>1. Init => State
  BY InitState
<1>2. State /\ [Next]_vars => State'
  BY StateKept
<1> QED
  BY <1>1, <1>2, PTL DEF Spec

\* Type correctness: whatever clients send, in whatever order, the stored value
\* consists of bytes value_len can count, and no write is prepared of another.
THEOREM Typed == Spec => []TypeOK
<1>1. ASSUME State PROVE TypeOK
  <2>1. Layout(db) /\ 14 \in 1 .. 18
    BY <1>1 DEF State
  <2>2. At(14) \in Kind(14)
    BY <2>1, AtHandle
  <2>3. At(14).value \in Values(14) /\ At(14).read = ReadOf(14) /\ At(14).write = WriteOf(14)
    BY <2>2 DEF Kind
  <2>4. 14 \in Stores
    BY <2>3 DEF Stores, ReadOf, WriteOf
  <2>5. At(14).value \in Seq(Byte) /\ Len(At(14).value) < LenMod
    BY <2>3 DEF Values
  <2>6. \A i \in DOMAIN prep : prep[i].handle \in Stores
    <3>1. \A i \in DOMAIN prep : prep[i] \in PrepEntry
      BY <1>1, LenProperties, ElementOfSeq DEF State
    <3> QED
      BY <2>4, <3>1 DEF PrepEntry
  <2> QED
    BY <1>1, <2>5, <2>6 DEF State, TypeOK
<1> QED
  BY <1>1, StateHolds, PTL

\* Nothing a client sends changes a value it may not write, prepared or not
\* (check_permissions and prep_write_cb of gatt-server.c).
THEOREM ReadOnlyHolds == Spec => ReadOnlyKept
<1> DEFINE Kept == \A h \in Stores : "WRITE" \notin At(h).perms => At(h)' = At(h)
<1>1. ASSUME State, [Next]_vars PROVE Kept
  <2>1. Layout(db) /\ Layout(db') /\ Alike14(db, db')
    BY <1>1, StateKept DEF State
  <2>2. ASSUME NEW h \in Stores, "WRITE" \notin At(h).perms
        PROVE  At(h)' = At(h)
    <3>1. h \in 1 .. 18
      BY DEF Stores
    <3>2. h # 14
      <4>1. At(14) \in Kind(14)
        BY <2>1, AtHandle
      <4>2. At(14).perms = RW
        BY <4>1 DEF Kind, PermsOf
      <4> QED
        BY <2>2, <4>2 DEF RW
    <3>3. At(h) = Attr(db, h) /\ At(h)' = Attr(db', h)
      BY <2>1, <3>1, AttributeFound DEF At
    <3> QED
      BY <2>1, <3>1, <3>2, <3>3 DEF Alike14
  <2> QED
    BY <2>2
<1>2. State /\ [Next]_vars => [Kept]_vars
  BY <1>1
<1> HIDE DEF Kept
<1>3. Spec => [][Kept]_vars
  BY <1>2, StateHolds, PTL DEF Spec
<1> QED
  BY <1>3 DEF ReadOnlyKept, Kept

-----------------------------------------------------------------------------
(* Numbers and selections *)

\* As many entries as fit.
LEMMA DivBound ==
    ASSUME NEW r \in Nat, NEW b \in Nat, b > 0, NEW c \in Int, c <= r \div b
    PROVE  c * b <= r
<1> DEFINE q == r \div b
<1>1. q \in Int /\ q * b <= r
  OBVIOUS
<1> HIDE DEF q
<1>2. c * b <= q * b
  <2>1. c <= q /\ q - c >= 0
    BY <1>1 DEF q
  <2>2. (q - c) * b >= 0
    BY <1>1, <2>1
  <2>3. (q - c) * b = q * b - c * b
    BY <1>1
  <2>4. c * b \in Int /\ q * b \in Int
    BY <1>1
  <2> QED
    BY <2>2, <2>3, <2>4
<1>3. c * b \in Int /\ q * b \in Int
  BY <1>1
<1> QED BY <1>1, <1>2, <1>3

\* The largest number of a bounded set.
LEMMA Greatest ==
    ASSUME NEW n \in Nat, NEW T, T \subseteq 0 .. n, T # {}
    PROVE  Max(T) \in T /\ \A y \in T : y <= Max(T)
<1> DEFINE U == {n - x : x \in T}
<1>1. PICK u \in U : \A y \in U : u <= y
  <2>1. U \subseteq Nat
    OBVIOUS
  <2>2. U # {}
    <3>1. PICK x \in T : TRUE
      OBVIOUS
    <3>2. n - x \in U
      BY <3>1
    <3> QED
      BY <3>2
  <2> HIDE DEF U
  <2> QED
    BY <2>1, <2>2, Least
<1>2. n - u \in T /\ \A y \in T : y <= n - u
  <2>1. PICK x \in T : u = n - x
    BY <1>1
  <2>2. \A y \in T : n - x <= n - y
    BY <1>1, <2>1
  <2>3. n - u = x
    BY <2>1
  <2> QED
    BY <2>2, <2>3
<1>3. Max(T) \in T /\ \A y \in T : Max(T) >= y
  BY <1>2 DEF Max
<1> QED
  BY <1>3

\* t is what stands in s at the places P up to n, in order; m says where from.
Selects(t, s, P, n, m) ==
    /\ m \in [1 .. Len(t) -> P \cap (1 .. n)]
    /\ \A i, j \in 1 .. Len(t) : i < j => m[i] < m[j]
    /\ \A i \in 1 .. Len(t) : t[i] = s[m[i]]
    /\ \A p \in P \cap (1 .. n) : \E i \in 1 .. Len(t) : m[i] = p

ThoseUpto(f, s, P) ==
    f = [n \in 0 .. Len(s) |->
            IF n = 0 THEN <<>>
            ELSE IF n \in P THEN Append(f[n - 1], s[n])
                 ELSE f[n - 1]]

\* What the searches of gatt-db.c collect.
LEMMA ThoseSelects ==
    ASSUME NEW S, NEW s \in Seq(S), NEW P
    PROVE  Db!Those(s, P) \in Seq(S) /\ \E m : Selects(Db!Those(s, P), s, P, Len(s), m)
<1> DEFINE N == Len(s)
           D == Seq(S)
           One(n, x) == IF n \in P THEN Append(x, s[n]) ELSE x
           g == [n \in 1 .. N |-> [x \in D |-> One(n, x)]]
           f == CHOOSE x : ThoseUpto(x, s, P)
<1>1. N \in Nat /\ \A n \in 1 .. N : s[n] \in S
  BY LenProperties, ElementOfSeq
<1>2. \E x : ThoseUpto(x, s, P)
  <2>1. \A n \in 1 .. N : \A x \in D : One(n, x) \in D
    BY <1>1, AppendProperties
  <2> HIDE DEF One
  <2>2. \A n \in 1 .. N : \A x \in D : g[n][x] = One(n, x)
    OBVIOUS
  <2>3. \A n \in 1 .. N : \A x \in D : g[n][x] \in D
    BY <2>1, <2>2
  <2>4. <<>> \in D
    OBVIOUS
  <2> HIDE DEF g, D, N
  <2>5. PICK h : Runs(h, D, N, <<>>, g)
    BY <1>1, <2>3, <2>4, Recursion
  <2>6. /\ h \in [0 .. N -> D] /\ h[0] = <<>>
        /\ \A n \in 1 .. N : h[n] = g[n][h[n - 1]]
    BY <2>5 DEF Runs
  <2>7. \A n \in 1 .. N : h[n] = One(n, h[n - 1])
    <3>1. \A n \in 1 .. N : n - 1 \in 0 .. N
      BY <1>1
    <3> QED
      BY <2>2, <2>6, <3>1
  <2>8. h = [n \in 0 .. N |-> IF n = 0 THEN <<>> ELSE One(n, h[n - 1])]
    <3>1. \A n \in 0 .. N : h[n] = IF n = 0 THEN <<>> ELSE One(n, h[n - 1])
      BY <1>1, <2>6, <2>7
    <3> QED
      BY <2>6, <3>1
  <2>9. ThoseUpto(h, s, P)
    BY <2>8 DEF ThoseUpto, One, N
  <2> QED
    BY <2>9
<1>3. ThoseUpto(f, s, P)
  BY <1>2
<1>4. Db!Those(s, P) = f[N]
  BY DEF Db!Those, ThoseUpto
<1> HIDE DEF f
<1>5. \A n \in 0 .. N : f[n] = IF n = 0 THEN <<>> ELSE One(n, f[n - 1])
  <2>1. f = [n \in 0 .. N |-> IF n = 0 THEN <<>> ELSE One(n, f[n - 1])]
    BY <1>3 DEF ThoseUpto
  <2> HIDE DEF One
  <2> QED
    BY <2>1
<1> DEFINE Good(n) == f[n] \in Seq(S) /\ \E m : Selects(f[n], s, P, n, m)
           T == {n \in 0 .. N : Good(n)}
<1>6. 0 \in T
  <2>1. f[0] = <<>> /\ 0 \in 0 .. N
    BY <1>1, <1>5
  <2> DEFINE m == [i \in 1 .. 0 |-> 0]
  <2>2. Selects(<<>>, s, P, 0, m)
    BY DEF Selects
  <2>3. <<>> \in Seq(S)
    OBVIOUS
  <2> HIDE DEF m
  <2> QED
    BY <2>1, <2>2, <2>3
<1>7. ASSUME NEW n \in 0 .. N - 1, n \in T PROVE n + 1 \in T
  <2> DEFINE x == f[n]
             l == Len(x)
  <2>1. /\ n + 1 \in 1 .. N /\ n + 1 \in 0 .. N /\ (n + 1) - 1 = n /\ n + 1 # 0 /\ n \in Nat
    BY <1>1
  <2>2. PICK m : Selects(x, s, P, n, m)
    BY <1>7
  <2>3. x \in Seq(S) /\ l \in Nat
    BY <1>7, LenProperties
  <2>4. f[n + 1] = One(n + 1, x)
    <3> HIDE DEF One
    <3> QED
      BY <1>5, <2>1
  <2> HIDE DEF x, T
  <2>5. CASE n + 1 \notin P
    <3>1. f[n + 1] = x
      BY <2>4, <2>5
    <3>2. P \cap (1 .. n + 1) = P \cap (1 .. n)
      BY <2>1, <2>5
    <3>3. Selects(x, s, P, n + 1, m)
      BY <2>2, <3>2 DEF Selects
    <3> QED
      BY <2>1, <2>3, <3>1, <3>3 DEF T
  <2>6. CASE n + 1 \in P
    <3> DEFINE y == Append(x, s[n + 1])
               e == [i \in 1 .. l + 1 |-> IF i <= l THEN m[i] ELSE n + 1]
    <3>1. f[n + 1] = y
      BY <2>4, <2>6
    <3>2. y \in Seq(S) /\ Len(y) = l + 1 /\ y[l + 1] = s[n + 1]
          /\ \A i \in 1 .. l : y[i] = x[i]
      BY <1>1, <2>1, <2>3, AppendProperties
    <3>3. /\ \A i \in 1 .. l : e[i] = m[i] /\ m[i] \in P \cap (1 .. n) /\ i \in 1 .. l + 1
          /\ e[l + 1] = n + 1 /\ l + 1 \in 1 .. l + 1
          /\ \A i \in 1 .. l + 1 : i \in 1 .. l \/ i = l + 1
          /\ n + 1 \in P \cap (1 .. n + 1)
          /\ \A p \in P \cap (1 .. n) : p \in P \cap (1 .. n + 1) /\ p < n + 1
      BY <2>1, <2>2, <2>3, <2>6, SMTT(30) DEF Selects
    <3>4. e \in [1 .. l + 1 -> P \cap (1 .. n + 1)]
      <4>1. \A i \in 1 .. l + 1 : e[i] \in P \cap (1 .. n + 1)
        BY <3>3
      <4> QED
        BY <4>1
    <3> HIDE DEF e, y
    <3>5. \A i, j \in 1 .. l + 1 : i < j => e[i] < e[j]
      <4> SUFFICES ASSUME NEW i \in 1 .. l + 1, NEW j \in 1 .. l + 1, i < j
                   PROVE  e[i] < e[j]
        OBVIOUS
      <4>1. i \in 1 .. l
        BY <2>3
      <4>2. CASE j = l + 1
        BY <3>3, <4>1, <4>2
      <4>3. CASE j \in 1 .. l
        BY <2>2, <3>3, <4>1, <4>3 DEF Selects
      <4> QED
        BY <3>3, <4>2, <4>3
    <3>6. \A i \in 1 .. l + 1 : y[i] = s[e[i]]
      <4> SUFFICES ASSUME NEW i \in 1 .. l + 1 PROVE y[i] = s[e[i]]
        OBVIOUS
      <4>1. CASE i = l + 1
        BY <3>2, <3>3, <4>1
      <4>2. CASE i \in 1 .. l
        BY <2>2, <3>2, <3>3, <4>2 DEF Selects
      <4> QED
        BY <3>3, <4>1, <4>2
    <3>7. \A p \in P \cap (1 .. n + 1) : \E i \in 1 .. l + 1 : e[i] = p
      <4> SUFFICES ASSUME NEW p \in P \cap (1 .. n + 1) PROVE \E i \in 1 .. l + 1 : e[i] = p
        OBVIOUS
      <4>1. CASE p = n + 1
        BY <3>3, <4>1
      <4>2. CASE p \in P \cap (1 .. n)
        <5>1. PICK i \in 1 .. l : m[i] = p
          BY <2>2, <4>2 DEF Selects
        <5> QED
          BY <3>3, <5>1
      <4> QED
        BY <2>1, <4>1, <4>2
    <3>8. Selects(y, s, P, n + 1, e)
      BY <3>2, <3>4, <3>5, <3>6, <3>7 DEF Selects
    <3> QED
      BY <2>1, <3>1, <3>2, <3>8 DEF T
  <2> QED
    BY <2>5, <2>6
<1> HIDE DEF T
<1>8. 0 .. N \subseteq T
  BY <1>1, <1>6, <1>7, Counting
<1>9. N \in T
  BY <1>1, <1>8
<1> QED
  BY <1>4, <1>9 DEF T

ActiveUpto(f, d) ==
    f = [n \in 0 .. Len(d.services) |->
            IF n = 0 THEN <<>>
            ELSE IF d.services[n].active
                 THEN f[n - 1] \o d.services[n].attributes
                 ELSE f[n - 1]]

\* The searches go through the attributes of all handles.
LEMMA ActiveAreAll ==
    ASSUME NEW d, Layout(d)
    PROVE  LET q == Db!ActiveAttributes(d)
           IN  /\ q \in Seq(Attributes) /\ Len(q) = 18
               /\ \A h \in 1 .. 18 : q[h] = Attr(d, h)
<1> DEFINE N == Len(d.services)
           D == Seq(Attributes)
           One(n, x) == IF d.services[n].active THEN x \o d.services[n].attributes ELSE x
           g == [n \in 1 .. N |-> [x \in D |-> One(n, x)]]
           f == CHOOSE x : ActiveUpto(x, d)
<1>1. N = 4
  <2>1. 1 \in 1 .. 4
    OBVIOUS
  <2> QED
    BY <2>1, LayoutServices
<1>2. \A n \in 1 .. 4 : /\ d.services[n].active /\ d.services[n].attributes \in D
                        /\ Len(d.services[n].attributes) = Size(n)
  BY LayoutServices
<1>3. \E x : ActiveUpto(x, d)
  <2>1. \A n \in 1 .. N : \A x \in D : One(n, x) \in D
    BY <1>1, <1>2, ConcatProperties
  <2> HIDE DEF One
  <2>2. \A n \in 1 .. N : \A x \in D : g[n][x] = One(n, x)
    OBVIOUS
  <2>3. N \in Nat /\ \A n \in 1 .. N : \A x \in D : g[n][x] \in D
    BY <1>1, <2>1, <2>2
  <2>4. <<>> \in D
    OBVIOUS
  <2> HIDE DEF g, D, N
  <2>5. PICK h : Runs(h, D, N, <<>>, g)
    BY <2>3, <2>4, Recursion
  <2>6. /\ h \in [0 .. N -> D] /\ h[0] = <<>>
        /\ \A n \in 1 .. N : h[n] = g[n][h[n - 1]]
    BY <2>5 DEF Runs
  <2>7. \A n \in 1 .. N : h[n] = One(n, h[n - 1])
    <3>1. \A n \in 1 .. N : n - 1 \in 0 .. N
      BY <2>3
    <3> QED
      BY <2>2, <2>6, <3>1
  <2>8. h = [n \in 0 .. N |-> IF n = 0 THEN <<>> ELSE One(n, h[n - 1])]
    <3>1. \A n \in 0 .. N : h[n] = IF n = 0 THEN <<>> ELSE One(n, h[n - 1])
      BY <2>3, <2>6, <2>7
    <3> QED
      BY <2>6, <3>1
  <2>9. ActiveUpto(h, d)
    BY <2>8 DEF ActiveUpto, One, N
  <2> QED
    BY <2>9
<1>4. ActiveUpto(f, d)
  BY <1>3
<1>5. Db!ActiveAttributes(d) = f[N]
  BY DEF Db!ActiveAttributes, ActiveUpto
<1> HIDE DEF f
<1>6. \A n \in 0 .. N : f[n] = IF n = 0 THEN <<>> ELSE One(n, f[n - 1])
  <2>1. f = [n \in 0 .. N |-> IF n = 0 THEN <<>> ELSE One(n, f[n - 1])]
    BY <1>4 DEF ActiveUpto
  <2> HIDE DEF One
  <2> QED
    BY <2>1
<1> DEFINE Good(n) == /\ f[n] \in D /\ Len(f[n]) = First(n + 1) - 1
                      /\ \A h \in 1 .. First(n + 1) - 1 : f[n][h] = Attr(d, h)
           T == {n \in 0 .. 4 : Good(n)}
<1>7. 0 \in T
  <2>1. f[0] = <<>> /\ First(0 + 1) = 1
    BY <1>1, <1>6 DEF First
  <2>2. Good(0)
    BY <2>1
  <2> QED
    BY <2>2
<1>8. ASSUME NEW n \in 0 .. 4 - 1, n \in T PROVE n + 1 \in T
  <2> DEFINE k == n + 1
             x == f[n]
             a == d.services[k].attributes
             l == First(k) - 1
  <2>1. k \in 1 .. 4 /\ k \in 0 .. N /\ k - 1 = n /\ k # 0
    BY <1>1
  <2>2. x \in D /\ Len(x) = l /\ \A h \in 1 .. l : x[h] = Attr(d, h)
    BY <1>8
  <2>3. a \in D /\ Len(a) = Size(k)
    BY <1>2, <2>1
  <2>4. f[k] = x \o a
    <3>1. f[k] = One(k, f[k - 1])
      <4> HIDE DEF One
      <4> QED
        BY <1>6, <2>1
    <3> QED
      BY <1>2, <2>1, <3>1
  <2>5. /\ l \in Nat /\ Size(k) \in Nat /\ First(k) = l + 1
        /\ First(k + 1) - 1 = l + Size(k)
    BY <2>1 DEF First, Size
  <2> HIDE DEF k, x, a, l
  <2>6. /\ x \o a \in D /\ Len(x \o a) = l + Size(k)
        /\ \A h \in 1 .. l + Size(k) : (x \o a)[h] = IF h <= l THEN x[h] ELSE a[h - l]
    BY <2>2, <2>3, ConcatProperties
  <2>7. ASSUME NEW h \in 1 .. l + Size(k) PROVE (x \o a)[h] = Attr(d, h)
    <3>1. CASE h <= l
      <4>1. h \in 1 .. l
        BY <2>5, <3>1
      <4> QED
        BY <2>2, <2>6, <3>1, <4>1
    <3>2. CASE h > l
      <4> DEFINE i == h - l
      <4>1. i \in 1 .. Size(k) /\ h = First(k) + i - 1 /\ ~(h <= l)
        BY <2>5, <3>2
      <4> HIDE DEF i
      <4>2. Attr(d, h) = d.services[k].attributes[i]
        BY <2>1, <4>1, AttrPlaces
      <4> QED
        BY <2>6, <4>1, <4>2 DEF a, i
    <3>3. h \in Int /\ l \in Int
      BY <2>5
    <3>4. h <= l \/ h > l
      BY <3>3
    <3> QED
      BY <3>1, <3>2, <3>4
  <2>8. Good(k)
    <3> HIDE DEF D
    <3> QED
      BY <2>4, <2>5, <2>6, <2>7
  <2>9. k = n + 1 /\ k \in 0 .. 4
    BY <2>1 DEF k
  <2> HIDE DEF Good
  <2> QED
    BY <2>8, <2>9
<1> HIDE DEF T
<1>9. 0 .. 4 \subseteq T
  BY <1>7, <1>8, Counting
<1>10. Good(4)
  <2>1. 4 \in T
    BY <1>9
  <2> QED
    BY <2>1 DEF T
<1>11. First(4 + 1) - 1 = 18
  BY DEF First
<1> QED
  BY <1>1, <1>5, <1>10, <1>11

-----------------------------------------------------------------------------
(* Searches *)

\* What a search gives: the attributes of the handles P, in order.
Hits(t, d, P) ==
    /\ t \in Seq(Attributes)
    /\ \A i \in 1 .. Len(t) : t[i].handle \in P \cap (1 .. 18) /\ t[i] = Attr(d, t[i].handle)
    /\ \A i, j \in 1 .. Len(t) : i < j => t[i].handle < t[j].handle
    /\ \A h \in P \cap (1 .. 18) : \E i \in 1 .. Len(t) : t[i].handle = h

\* A search through all attributes.
LEMMA SearchHits ==
    ASSUME NEW d, Layout(d), NEW P
    PROVE  Hits(Db!Those(Db!ActiveAttributes(d), P), d, P)
<1> DEFINE q == Db!ActiveAttributes(d)
           t == Db!Those(q, P)
<1>1. q \in Seq(Attributes) /\ Len(q) = 18 /\ \A h \in 1 .. 18 : q[h] = Attr(d, h)
  BY ActiveAreAll
<1> HIDE DEF q
<1>2. t \in Seq(Attributes) /\ \E m : Selects(t, q, P, 18, m)
  <2>1. t \in Seq(Attributes) /\ \E m : Selects(t, q, P, Len(q), m)
    BY <1>1, ThoseSelects
  <2> QED
    BY <1>1, <2>1
<1> HIDE DEF t
<1>3. PICK m : Selects(t, q, P, 18, m)
  BY <1>2
<1>4. ASSUME NEW i \in 1 .. Len(t)
      PROVE  m[i] \in P \cap (1 .. 18) /\ t[i] = Attr(d, m[i]) /\ t[i].handle = m[i]
  <2>1. m[i] \in P \cap (1 .. 18) /\ t[i] = q[m[i]]
    BY <1>3 DEF Selects
  <2>2. t[i] = Attr(d, m[i])
    BY <1>1, <2>1
  <2> QED
    BY <2>1, <2>2, AttrKind
<1>5. \A i, j \in 1 .. Len(t) : i < j => t[i].handle < t[j].handle
  BY <1>3, <1>4 DEF Selects
<1>6. \A h \in P \cap (1 .. 18) : \E i \in 1 .. Len(t) : t[i].handle = h
  <2> SUFFICES ASSUME NEW h \in P \cap (1 .. 18) PROVE \E i \in 1 .. Len(t) : t[i].handle = h
    OBVIOUS
  <2>1. PICK i \in 1 .. Len(t) : m[i] = h
    BY <1>3 DEF Selects
  <2> QED
    BY <1>4, <2>1
<1>7. Hits(t, d, P)
  BY <1>2, <1>4, <1>5, <1>6 DEF Hits
<1> QED
  BY <1>7 DEF t, q

\* What the attributes are a search asks for.
LEMMA Places18 ==
    ASSUME NEW d, Layout(d)
    PROVE  LET q == Db!ActiveAttributes(d)
           IN  /\ DOMAIN q = 1 .. 18
               /\ \A h \in 1 .. 18 : q[h] = Attr(d, h) /\ q[h].handle = h
<1> DEFINE q == Db!ActiveAttributes(d)
<1>1. q \in Seq(Attributes) /\ Len(q) = 18 /\ \A h \in 1 .. 18 : q[h] = Attr(d, h)
  BY ActiveAreAll
<1> HIDE DEF q
<1>2. DOMAIN q = 1 .. 18
  BY <1>1, LenProperties
<1>3. \A h \in 1 .. 18 : q[h].handle = h
  BY <1>1, AttrKind
<1> QED
  BY <1>1, <1>2, <1>3 DEF q

\* gatt_db_find_information
LEMMA InfoHits ==
    ASSUME NEW d, Layout(d), NEW start, NEW end
    PROVE  Hits(Db!FindInformation(d, start, end), d, {h \in 1 .. 18 : h \in start .. end})
<1> DEFINE q == Db!ActiveAttributes(d)
<1>1. {i \in DOMAIN q : q[i].handle \in start .. end} = {h \in 1 .. 18 : h \in start .. end}
  BY Places18
<1> QED
  BY <1>1, SearchHits DEF Db!FindInformation

\* gatt_db_read_by_type
LEMMA TypeHits ==
    ASSUME NEW d, Layout(d), NEW start, NEW end, NEW type
    PROVE  Hits(Db!ReadByType(d, start, end, type), d,
                {h \in 1 .. 18 : h \in start .. end /\ Attr(d, h).uuid = type})
<1> DEFINE q == Db!ActiveAttributes(d)
<1>1. {i \in DOMAIN q : q[i].handle \in start .. end /\ q[i].uuid = type}
        = {h \in 1 .. 18 : h \in start .. end /\ Attr(d, h).uuid = type}
  BY Places18
<1> QED
  BY <1>1, SearchHits DEF Db!ReadByType

\* gatt_db_find_by_type_value
LEMMA ValueHits ==
    ASSUME NEW d, Layout(d), NEW start, NEW end, NEW type, NEW value
    PROVE  Hits(Db!FindByTypeValue(d, start, end, type, value), d,
                {h \in 1 .. 18 : /\ h \in start .. end /\ Attr(d, h).uuid = type
                                 /\ Len(Attr(d, h).value) = Len(value)
                                 /\ Attr(d, h).value = value})
<1> DEFINE q == Db!ActiveAttributes(d)
<1>1. {i \in DOMAIN q : /\ q[i].handle \in start .. end /\ q[i].uuid = type
                        /\ Len(q[i].value) = Len(value) /\ q[i].value = value}
        = {h \in 1 .. 18 : /\ h \in start .. end /\ Attr(d, h).uuid = type
                           /\ Len(Attr(d, h).value) = Len(value)
                           /\ Attr(d, h).value = value}
  <2>1. DOMAIN q = 1 .. 18 /\ \A h \in 1 .. 18 : q[h] = Attr(d, h) /\ q[h].handle = h
    BY Places18
  <2> HIDE DEF q
  <2> QED
    BY <2>1
<1> QED
  BY <1>1, SearchHits DEF Db!FindByTypeValue

\* What gatt_db_read_by_group_type gives: the services whose declaration has
\* the type and whose first handle is in the range, up to the first with a
\* UUID of another size; m says which they are.
Groups(d, start, end, type) ==
    {k \in 1 .. 4 : First(k) \in start .. end /\ Attr(d, First(k)).uuid = type}

GroupsFound(q, d, P, m) ==
    /\ q \in Seq(Service) /\ m \in [1 .. Len(q) -> P]
    /\ \A i \in 1 .. Len(q) : q[i] = d.services[m[i]]
    /\ \A i, j \in 1 .. Len(q) : i < j => m[i] < m[j]
    /\ \A k \in P : \/ \E i \in 1 .. Len(q) : m[i] = k
                    \/ Len(q) > 0 /\ m[Len(q)] < k
    /\ \A i \in 1 .. Len(q) : Len(q[i].attributes[1].value) = Len(q[1].attributes[1].value)

\* gatt_db_read_by_group_type
LEMMA GroupHits ==
    ASSUME NEW d, Layout(d), NEW start, NEW end, NEW type
    PROVE  \E m : GroupsFound(Db!ReadByGroupType(d, start, end, type), d,
                              Groups(d, start, end, type), m)
<1> DEFINE s == d.services
           P == Groups(d, start, end, type)
           Q == {k \in DOMAIN s : /\ s[k].active /\ s[k].attributes[1].uuid = type
                                  /\ Db!Start(s[k]) \in start .. end}
           t == Db!Those(s, Q)
           Size0(k) == Len(t[k].attributes[1].value)
           same == {n \in 0 .. Len(t) : \A k \in 1 .. n : Size0(k) = Size0(1)}
           l == Max(same)
           q == SubSeq(t, 1, l)
<1>1. s \in Seq(Service) /\ Len(s) = 4 /\ DOMAIN s = 1 .. 4
  <2>1. 1 \in 1 .. 4
    OBVIOUS
  <2> QED
    BY <2>1, LayoutServices
<1>2. Q = P
  <2>1. ASSUME NEW k \in 1 .. 4
        PROVE  /\ s[k].active /\ Db!Start(s[k]) = First(k)
               /\ s[k].attributes[1] = Attr(d, First(k))
    <3>1. 1 \in 1 .. Size(k) /\ First(k) = First(k) + 1 - 1
      BY DEF Size, First
    <3> QED
      BY <3>1, LayoutServices, AttrPlaces, SMTT(30)
  <2> QED
    BY <1>1, <2>1 DEF Groups
<1>3. P \subseteq 1 .. 4
  BY DEF Groups
<1> HIDE DEF P, Q
<1>4. t \in Seq(Service) /\ \E m : Selects(t, s, P, 4, m)
  <2>1. t \in Seq(Service) /\ \E m : Selects(t, s, Q, Len(s), m)
    BY <1>1, ThoseSelects
  <2> QED
    BY <1>1, <1>2, <2>1
<1>5. PICK m0 : Selects(t, s, P, 4, m0)
  BY <1>4
<1>6. Db!ReadByGroupType(d, start, end, type) = q
  <2>1. Db!ReadByGroupType(d, start, end, type) = SubSeq(t, 1, Db!Max(same))
    BY DEF Db!ReadByGroupType, Q
  <2> QED
    BY <2>1, SameOperators
<1>7. Len(t) \in Nat
  BY <1>4, LenProperties
<1> HIDE DEF t
<1>8. l \in same /\ \A n \in same : n <= l
  <2>1. 0 \in same /\ same \subseteq 0 .. Len(t)
    BY <1>7
  <2> HIDE DEF same
  <2> QED
    BY <1>7, <2>1, Greatest
<1>9. l \in 0 .. Len(t) /\ (\A k \in 1 .. l : Size0(k) = Size0(1)) /\ (Len(t) > 0 => l > 0)
  <2>1. Len(t) > 0 => 1 \in same
    BY <1>7
  <2>2. l \in 0 .. Len(t) /\ \A k \in 1 .. l : Size0(k) = Size0(1)
    <3> HIDE DEF l
    <3> QED
      BY <1>8
  <2>3. 1 \in same => l > 0
    <3> HIDE DEF same
    <3> QED
      BY <1>8, <2>2
  <2> QED
    BY <2>1, <2>2, <2>3
<1> HIDE DEF l, same
<1>10. q \in Seq(Service) /\ Len(q) = l /\ \A i \in 1 .. l : q[i] = t[i]
  BY <1>4, <1>7, <1>9
<1> HIDE DEF q
<1> DEFINE m == [i \in 1 .. l |-> m0[i]]
<1>11. \A i \in 1 .. l : i \in 1 .. Len(t) /\ m[i] = m0[i] /\ m0[i] \in P /\ m0[i] \in 1 .. 4
  BY <1>3, <1>5, <1>7, <1>9 DEF Selects
<1>12. m \in [1 .. l -> P]
  BY <1>11
<1> HIDE DEF m
<1>13. \A i \in 1 .. l : q[i] = s[m[i]]
  BY <1>5, <1>10, <1>11 DEF Selects
<1>14. \A i, j \in 1 .. l : i < j => m[i] < m[j]
  BY <1>5, <1>11 DEF Selects
<1>15. \A k \in P : (\E i \in 1 .. l : m[i] = k) \/ (l > 0 /\ m[l] < k)
  <2> SUFFICES ASSUME NEW k \in P PROVE (\E i \in 1 .. l : m[i] = k) \/ (l > 0 /\ m[l] < k)
    OBVIOUS
  <2>1. k \in P \cap (1 .. 4)
    BY <1>3
  <2>2. PICK i \in 1 .. Len(t) : m0[i] = k
    BY <1>5, <2>1 DEF Selects
  <2>3. CASE i \in 1 .. l
    BY <1>11, <2>2, <2>3
  <2>4. CASE i > l
    <3>1. l > 0 /\ l \in 1 .. l /\ l \in 1 .. Len(t) /\ l < i
      BY <1>7, <1>9, <2>4
    <3>2. m0[l] < m0[i]
      BY <1>5, <3>1 DEF Selects
    <3> QED
      BY <1>11, <2>2, <3>1, <3>2
  <2>5. i \in 1 .. l \/ i > l
    BY <1>7, <1>9
  <2> QED
    BY <2>3, <2>4, <2>5
<1>16. \A i \in 1 .. l : Len(q[i].attributes[1].value) = Len(q[1].attributes[1].value)
  <2>1. \A i \in 1 .. l : 1 \in 1 .. l
    BY <1>9
  <2> QED
    BY <1>9, <1>10, <2>1
<1>17. GroupsFound(q, d, P, m)
  BY <1>10, <1>12, <1>13, <1>14, <1>15, <1>16 DEF GroupsFound
<1> QED
  BY <1>6, <1>17 DEF P

-----------------------------------------------------------------------------
(* Answers *)

\* gatt_db_attribute_read gives bytes.
LEMMA ValueType ==
    ASSUME State, NEW h \in 1 .. 18, NEW offset \in Nat, OffsetFits(Attr(db, h), offset)
    PROVE  Value(Attr(db, h), offset) \in Seq(Atom)
<1> DEFINE a == Attr(db, h)
<1>1. a \in Attributes
  BY AttrKind DEF State
<1> HIDE DEF a
<1>2. CASE a.read \in Cccs
  <2>1. flags[a.read] \in BOOLEAN /\ OnByte[a.read] \in Nat
    BY <1>2 DEF State, Cccs, OnByte
  <2>2. Value(a, offset) = Bytes(flags[a.read], OnByte[a.read])
    <3>1. a.read # "svc_chngd" /\ a.read # "stored"
      BY <1>2 DEF Cccs, OnByte
    <3> QED
      BY <1>2, <3>1 DEF Value
  <2> DEFINE b == IF flags[a.read] THEN OnByte[a.read] ELSE 0
  <2>3. b \in Atom /\ 0 \in Atom
    BY <2>1 DEF Atom, Byte
  <2>4. Value(a, offset) = <<b, 0>>
    BY <2>2 DEF Bytes
  <2> HIDE DEF b
  <2> QED
    BY <2>3, <2>4 DEF a
<1>3. CASE a.read = "svc_chngd"
  <2>1. a.read \notin Cccs
    BY <1>3 DEF Cccs, OnByte
  <2>2. Value(a, offset) = <<>>
    BY <1>3, <2>1 DEF Value
  <2> QED
    BY <2>2 DEF a
<1>4. CASE a.read = "stored"
  <2>1. a.read \notin Cccs /\ a.read # "svc_chngd"
    BY <1>4 DEF Cccs, OnByte
  <2>2. Value(a, offset) = SubSeq(a.value, offset + 1, Len(a.value))
    BY <1>4, <2>1 DEF Value
  <2>3. a.value \in Seq(Atom)
    BY <1>1 DEF Attributes
  <2>4. SubSeq(a.value, offset + 1, Len(a.value)) \in Seq(Atom)
    BY <2>3, LenProperties
  <2> QED
    BY <2>2, <2>4 DEF a
<1> QED
  BY <1>1, <1>2, <1>3, <1>4 DEF Attributes, a

\* The answers of a request, and that they fit.
Reply(req, p) ==
    /\ p.op # "NOTIFICATION" /\ p.len <= mtu.att
    /\ p.op = RspOf[req.op] \/ (p.op = "ERROR" /\ p.body[1] = req.op)

\* An error fits into every MTU.
LEMMA ErrorReply ==
    ASSUME State, NEW req, NEW h, NEW code
    PROVE  Reply(req, Error(req, h, code))
<1>1. Error(req, h, code) = [op |-> "ERROR", len |-> 5, body |-> <<req.op, h, code>>]
  BY DEF Error, Pdu, ERROR_LEN
<1>2. mtu.att \in Nat /\ mtu.att >= 23
  BY DEF State, DEFAULT_LE_MTU
<1> QED
  BY <1>1, <1>2 DEF Reply

\* A response that fits.
LEMMA PduReply ==
    ASSUME NEW req, NEW op, op = RspOf[req.op], op # "NOTIFICATION",
           NEW len, len <= mtu.att, NEW body
    PROVE  Reply(req, Pdu(op, len, body))
BY DEF Reply, Pdu

\* The opcodes of the responses.
LEMMA RspTable ==
    /\ RspOf["MTU"] = "MTU_RSP" /\ RspOf["READ_BY_GROUP"] = "READ_BY_GROUP_RSP"
    /\ RspOf["READ_BY_TYPE"] = "READ_BY_TYPE_RSP" /\ RspOf["FIND_INFO"] = "FIND_INFO_RSP"
    /\ RspOf["FIND_BY_TYPE_VALUE"] = "FIND_BY_TYPE_VALUE_RSP"
    /\ RspOf["READ"] = "READ_RSP" /\ RspOf["READ_BLOB"] = "READ_BLOB_RSP"
    /\ RspOf["READ_MULT"] = "READ_MULT_RSP" /\ RspOf["WRITE"] = "WRITE_RSP"
    /\ RspOf["PREP_WRITE"] = "PREP_WRITE_RSP" /\ RspOf["EXEC_WRITE"] = "EXEC_WRITE_RSP"
    /\ ReadRsp["READ"] = "READ_RSP" /\ ReadRsp["READ_BLOB"] = "READ_BLOB_RSP"
BY DEF RspOf, ReadRsp

\* The opcodes.
LEMMA OpcodeSet ==
    /\ Opcodes = {"MTU", "READ_BY_GROUP", "READ_BY_TYPE", "FIND_INFO", "FIND_BY_TYPE_VALUE",
                 "READ", "READ_BLOB", "READ_MULT", "WRITE", "PREP_WRITE", "EXEC_WRITE",
                 "WRITE_CMD"}
BY DEF RspOf, Opcodes, Commands

\* How many entries of one size there are.
LEMMA AlikeBounds ==
    ASSUME NEW sizes, Len(sizes) \in Nat, NEW unit
    PROVE  /\ Alike(sizes, unit) \in 0 .. Len(sizes)
           /\ \A k \in 2 .. Alike(sizes, unit) : sizes[k] = unit
           /\ Len(sizes) > 0 => Alike(sizes, unit) > 0
<1> DEFINE T == {n \in 0 .. Len(sizes) : \A k \in 2 .. n : sizes[k] = unit}
<1>1. T \subseteq 0 .. Len(sizes) /\ 0 \in T /\ (Len(sizes) > 0 => 1 \in T)
  OBVIOUS
<1>2. \A n \in T : n \in 0 .. Len(sizes) /\ \A k \in 2 .. n : sizes[k] = unit
  OBVIOUS
<1>3. Alike(sizes, unit) = Max(T)
  BY DEF Alike
<1> HIDE DEF T
<1>4. Max(T) \in T /\ \A y \in T : y <= Max(T)
  BY <1>1, Greatest
<1> DEFINE x == Max(T)
<1> HIDE DEF x
<1>5. x \in T /\ \A y \in T : y <= x
  BY <1>4 DEF x
<1>6. x \in 0 .. Len(sizes) /\ (\A k \in 2 .. x : sizes[k] = unit)
      /\ (Len(sizes) > 0 => x > 0)
  BY <1>1, <1>2, <1>5
<1> QED
  BY <1>3, <1>6 DEF x

\* A list of entries of unit + e bytes.
LEMMA ListFits ==
    ASSUME State, NEW unit \in Nat, NEW e \in 2 .. 4, NEW c \in Nat, NEW n \in Nat,
           n <= Min({c, Room \div (unit + e)})
    PROVE  2 + n * (unit + e) <= mtu.att /\ n <= c
<1> DEFINE b == unit + e
           r == Room
           x == r \div b
<1>1. r \in Nat /\ r + 2 = mtu.att /\ b \in Nat /\ b > 0
  <2>1. mtu.att \in Nat /\ mtu.att >= 23
    BY DEF State, DEFAULT_LE_MTU
  <2> QED
    BY <2>1 DEF Room
<1> HIDE DEF b, r
<1>2. x \in Int
  BY <1>1
<1>3. n <= x /\ n <= c
  <2>1. n <= Min({c, x})
    BY DEF b, r
  <2> HIDE DEF x
  <2>2. Min({c, x}) = IF c <= x THEN c ELSE x
    BY <1>2, Extremes
  <2> QED
    BY <1>2, <2>1, <2>2
<1>4. n * b <= r
  BY <1>1, <1>3, DivBound
<1>5. n * b \in Int
  BY <1>1
<1>6. 2 + n * b <= mtu.att
  BY <1>1, <1>4, <1>5
<1> QED
  BY <1>3, <1>6 DEF b

\* One entry fits.
LEMMA OneFits ==
    ASSUME State, NEW unit \in Nat, NEW e \in 2 .. 4, unit + e <= Room, NEW c \in Nat, c > 0
    PROVE  Min({c, Room \div (unit + e)}) \in Nat /\ Min({c, Room \div (unit + e)}) > 0
<1> DEFINE b == unit + e
           r == Room
           x == r \div b
<1>1. r \in Nat /\ b \in Nat /\ b > 0 /\ b <= r
  <2>1. mtu.att \in Nat /\ mtu.att >= 23
    BY DEF State, DEFAULT_LE_MTU
  <2> QED
    BY <2>1 DEF Room
<1> HIDE DEF b, r
<1>2. x \in Nat /\ x > 0
  BY <1>1
<1> HIDE DEF x
<1>3. Min({c, x}) = IF c <= x THEN c ELSE x
  BY <1>2, Extremes
<1>4. Min({c, x}) \in Nat /\ Min({c, x}) > 0
  BY <1>2, <1>3
<1> QED
  BY <1>4 DEF b, r, x

\* The size of an entry: what the MTU and the length byte leave of the first.
LEMMA UnitBounds ==
    ASSUME NEW a \in Nat, NEW b \in Nat, NEW c \in Nat
    PROVE  /\ Min({a, b, c}) \in Nat /\ Min({a, b, c}) <= a /\ Min({a, b, c}) <= b
           /\ Min({a, b, c}) <= c
<1>1. {a, b, c} \subseteq Nat /\ {a, b, c} # {}
  OBVIOUS
<1>2. Min({a, b, c}) \in {a, b, c} /\ \A y \in {a, b, c} : Min({a, b, c}) <= y
  BY <1>1, MinIsLeast
<1> QED
  BY <1>1, <1>2

\* encode_read_by_grp_type_rsp
GroupPdu(q, unit, count) ==
    Pdu("READ_BY_GROUP_RSP", 2 + count * (unit + 4),
        [k \in 1 .. count |-> [handle |-> Db!Start(q[k]), end |-> Db!End(q[k]),
                               value |-> SubSeq(q[k].attributes[1].value, 1, unit)]])

\* encode_read_by_grp_type_rsp
LEMMA GroupListShape ==
    ASSUME State, NEW q, NEW m, NEW P, P \subseteq 1 .. 4, GroupsFound(q, db, P, m),
           Len(q) > 0
    PROVE  \E count \in 1 .. Len(q), unit \in Nat :
               /\ GroupList(q) = GroupPdu(q, unit, count)
               /\ 2 + count * (unit + 4) <= mtu.att
               /\ unit <= Len(q[1].attributes[1].value)
               /\ unit = Len(q[1].attributes[1].value) \/ count = 1
<1> DEFINE Uuid(k) == q[k].attributes[1].value
           l == Len(Uuid(1))
           unit == Min({mtu.att - 6, 251, l})
           sizes == [k \in DOMAIN q |-> Len(Uuid(k))]
           c == Alike(sizes, unit)
           count == Min({c, Room \div (unit + 4)})
<1>1. /\ q \in Seq(Service) /\ Len(q) \in Nat /\ DOMAIN q = 1 .. Len(q) /\ 1 \in 1 .. Len(q)
      /\ mtu.att \in Nat /\ mtu.att >= 23
  BY LenProperties DEF GroupsFound, State, DEFAULT_LE_MTU
<1>2. l \in Nat
  <2>1. m[1] \in 1 .. 4 /\ q[1] = db.services[m[1]]
    BY <1>1 DEF GroupsFound
  <2>2. Layout(db) /\ 1 \in 1 .. Size(m[1]) /\ First(m[1]) = First(m[1]) + 1 - 1
    BY DEF State, Size, First
  <2>3. /\ First(m[1]) \in 1 .. 18
        /\ Attr(db, First(m[1])) = db.services[m[1]].attributes[1]
    BY <2>1, <2>2, AttrPlaces
  <2>4. q[1].attributes[1] \in Attributes
    BY <2>1, <2>2, <2>3, AttrKind
  <2>5. Uuid(1) \in Seq(Atom)
    BY <2>4 DEF Attributes
  <2> QED
    BY <2>5, LenProperties
<1> HIDE DEF l
<1>3. unit \in Nat /\ unit <= mtu.att - 6 /\ unit <= l
  <2>1. mtu.att - 6 \in Nat /\ 251 \in Nat
    BY <1>1
  <2> QED
    BY <1>2, <2>1, UnitBounds
<1>4. Len(sizes) = Len(q) /\ \A k \in 1 .. Len(q) : sizes[k] = Len(Uuid(k))
  BY <1>1
<1> HIDE DEF sizes
<1>5. c \in 1 .. Len(q) /\ \A k \in 2 .. c : sizes[k] = unit
  BY <1>1, <1>4, AlikeBounds
<1> HIDE DEF unit, c
<1>6. count \in Nat /\ count > 0
  <2>1. unit + 4 <= Room /\ 4 \in 2 .. 4 /\ c \in Nat /\ c > 0
    BY <1>1, <1>3, <1>5 DEF Room
  <2> QED
    BY <1>3, <2>1, OneFits, Zenon
<1>7. 2 + count * (unit + 4) <= mtu.att /\ count <= c
  <2>1. 4 \in 2 .. 4 /\ c \in Nat /\ count <= Min({c, Room \div (unit + 4)})
    BY <1>5, <1>6
  <2> HIDE DEF count
  <2> QED
    BY <1>3, <1>6, <2>1, ListFits, Zenon
<1>8. GroupList(q) = GroupPdu(q, unit, count)
  BY DEF GroupList, GroupPdu, unit, c, sizes, l
<1> HIDE DEF count
<1>9. count \in 1 .. Len(q)
  BY <1>1, <1>5, <1>6, <1>7
<1>10. unit = l \/ count = 1
  <2> SUFFICES ASSUME count # 1 PROVE unit = l
    OBVIOUS
  <2>1. 2 \in 2 .. c /\ 2 \in 1 .. Len(q)
    BY <1>5, <1>6, <1>7, <1>9
  <2>2. sizes[2] = unit /\ sizes[2] = Len(Uuid(2))
    BY <1>4, <1>5, <2>1
  <2>3. Len(Uuid(2)) = l
    BY <2>1 DEF GroupsFound, l
  <2> QED
    BY <2>2, <2>3
<1> QED
  BY <1>3, <1>7, <1>8, <1>9, <1>10 DEF l

\* read_by_grp_type_cb answers once.
LEMMA GroupReply ==
    ASSUME State, NEW req, req.op = "READ_BY_GROUP"
    PROVE  Reply(req, GroupAnswer(req))
<1> DEFINE q == Db!ReadByGroupType(db, req.start, req.end, req.type)
           P == Groups(db, req.start, req.end, req.type)
<1>1. Layout(db)
  BY DEF State
<1>2. PICK m : GroupsFound(q, db, P, m)
  BY <1>1, GroupHits
<1>3. P \subseteq 1 .. 4
  BY DEF Groups
<1> HIDE DEF q, P
<1>4. CASE GroupAnswer(req) = GroupList(q) /\ q # <<>>
  <2>1. Len(q) > 0
    BY <1>2, <1>4, EmptySeq, LenProperties DEF GroupsFound
  <2>2. PICK count \in 1 .. Len(q), unit \in Nat :
            GroupList(q) = GroupPdu(q, unit, count) /\ 2 + count * (unit + 4) <= mtu.att
    BY <1>2, <1>3, <2>1, GroupListShape
  <2>3. RspOf[req.op] = "READ_BY_GROUP_RSP"
    BY RspTable
  <2> QED
    BY <1>4, <2>2, <2>3, PduReply DEF GroupPdu
<1>5. CASE \E h, code : GroupAnswer(req) = Error(req, h, code)
  BY <1>5, ErrorReply
<1> QED
  BY <1>4, <1>5 DEF GroupAnswer, q

\* What is read from the beginning of an attribute.
LEMMA HitValue ==
    ASSUME State, NEW q, NEW P, Hits(q, db, P), NEW k \in 1 .. Len(q)
    PROVE  Value(q[k], 0) \in Seq(Atom) /\ Len(Value(q[k], 0)) \in Nat
<1>1. q[k].handle \in 1 .. 18 /\ q[k] = Attr(db, q[k].handle)
  BY DEF Hits
<1> DEFINE h == q[k].handle
<1> HIDE DEF h
<1>2. Attr(db, h) \in Attributes
  BY <1>1, AttrKind DEF State, h
<1>3. OffsetFits(Attr(db, h), 0)
  <2>1. Len(Attr(db, h).value) \in Nat
    BY <1>2, LenProperties DEF Attributes
  <2> QED
    BY <2>1 DEF OffsetFits
<1>4. Value(Attr(db, h), 0) \in Seq(Atom)
  BY <1>1, <1>3, ValueType DEF h
<1> QED
  BY <1>1, <1>4, LenProperties DEF h

\* encode_read_by_type_rsp
TypePdu(q, unit, count) ==
    Pdu("READ_BY_TYPE_RSP", 2 + count * (unit + 2),
        [k \in 1 .. count |-> [handle |-> q[k].handle,
                               value |-> SubSeq(Value(q[k], 0), 1, unit)]])

\* process_read_by_type
LEMMA TypeListShape ==
    ASSUME State, NEW req, NEW q, NEW P, Hits(q, db, P), Len(q) > 0
    PROVE  \/ \E h : TypeList(req, q) = Error(req, h, "READ_NOT_PERMITTED")
           \/ \E count \in 1 .. Len(q), unit \in Nat :
                  /\ TypeList(req, q) = TypePdu(q, unit, count)
                  /\ 2 + count * (unit + 2) <= mtu.att
                  /\ unit <= Len(Value(q[1], 0))
                  /\ unit < Len(Value(q[1], 0)) => unit >= 19
                  /\ \A k \in 2 .. count : Len(Value(q[k], 0)) = unit
<1> DEFINE Val(k) == Value(q[k], 0)
           l == Len(Val(1))
           unit == Min({mtu.att - 4, 253, l})
           sizes == [k \in DOMAIN q |-> Len(Val(k))]
           c == Alike(sizes, unit)
           most == Min({c, Room \div (unit + 2)})
           T == {n \in 0 .. most : \A k \in 1 .. n : Permits(q[k], "READ")}
           count == Max(T)
           refused == /\ count < Len(q) /\ count * (unit + 2) # Room
                      /\ ~Permits(q[count + 1], "READ")
<1>1. /\ q \in Seq(Attributes) /\ Len(q) \in Nat /\ DOMAIN q = 1 .. Len(q) /\ 1 \in 1 .. Len(q)
      /\ mtu.att \in Nat /\ mtu.att >= 23
  BY LenProperties DEF Hits, State, DEFAULT_LE_MTU
<1>2. l \in Nat
  BY <1>1, HitValue
<1> HIDE DEF l
<1>3. unit \in Nat /\ unit <= mtu.att - 4 /\ unit <= l /\ (unit < l => unit >= 19)
  <2>1. mtu.att - 4 \in Nat /\ 253 \in Nat
    BY <1>1
  <2>2. unit \in Nat /\ unit <= mtu.att - 4 /\ unit <= l
    BY <1>2, <2>1, UnitBounds
  <2>3. unit = mtu.att - 4 \/ unit = 253 \/ unit = l
    <3>1. {mtu.att - 4, 253, l} \subseteq Nat /\ {mtu.att - 4, 253, l} # {}
      BY <1>2, <2>1
    <3>2. unit \in {mtu.att - 4, 253, l}
      BY <3>1, MinIsLeast
    <3> QED
      BY <3>2
  <2> QED
    BY <1>1, <2>2, <2>3
<1>4. Len(sizes) = Len(q) /\ \A k \in 1 .. Len(q) : sizes[k] = Len(Val(k))
  BY <1>1
<1> HIDE DEF sizes
<1>5. c \in 1 .. Len(q) /\ \A k \in 2 .. c : sizes[k] = unit
  BY <1>1, <1>4, AlikeBounds
<1> HIDE DEF unit, c
<1>6. most \in Nat /\ most > 0
  <2>1. unit + 2 <= Room /\ 2 \in 2 .. 4 /\ c \in Nat /\ c > 0
    BY <1>1, <1>3, <1>5 DEF Room
  <2> QED
    BY <1>3, <2>1, OneFits, Zenon
<1>7. count \in T /\ \A n \in T : n <= count
  <2>1. T \subseteq 0 .. most /\ 0 \in T
    BY <1>6
  <2> HIDE DEF T, most
  <2> QED
    BY <1>6, <2>1, Greatest
<1>8. /\ count \in 0 .. most /\ (\A k \in 1 .. count : Permits(q[k], "READ"))
      /\ count = 0 => ~Permits(q[1], "READ")
  <2>1. 1 \in T \/ ~Permits(q[1], "READ")
    BY <1>6
  <2>2. 1 \in T => count # 0
    <3> HIDE DEF T, count
    <3>1. 1 \in T => 1 <= count
      BY <1>7
    <3> QED
      BY <3>1
  <2>3. count \in 0 .. most /\ \A k \in 1 .. count : Permits(q[k], "READ")
    <3> HIDE DEF count
    <3> QED
      BY <1>7
  <2> QED
    BY <2>1, <2>2, <2>3
<1> HIDE DEF T, count
<1>9. 2 + count * (unit + 2) <= mtu.att /\ count <= c
  <2>1. 2 \in 2 .. 4 /\ c \in Nat /\ count \in Nat /\ count <= Min({c, Room \div (unit + 2)})
    BY <1>5, <1>6, <1>8
  <2> QED
    BY <1>3, <2>1, ListFits, Zenon
<1>10. TypeList(req, q) = IF refused THEN Error(req, q[count + 1].handle, "READ_NOT_PERMITTED")
                          ELSE TypePdu(q, unit, count)
  BY DEF TypeList, TypePdu, unit, c, sizes, l, count, T
<1>11. CASE refused
  BY <1>10, <1>11
<1>12. CASE ~refused
  <2>1. count # 0
    <3> SUFFICES ASSUME count = 0 PROVE refused
      BY <1>12
    <3>1. 0 < Len(q) /\ 0 * (unit + 2) = 0 /\ Room # 0 /\ 0 + 1 = 1
      BY <1>1, <1>3 DEF Room
    <3> QED
      BY <1>8, <3>1
  <2>2. count \in 1 .. Len(q)
    BY <1>1, <1>5, <1>6, <1>8, <1>9, <2>1
  <2>3. \A k \in 2 .. count : Len(Val(k)) = unit
    <3> SUFFICES ASSUME NEW k \in 2 .. count PROVE Len(Val(k)) = unit
      OBVIOUS
    <3>1. k \in 2 .. c /\ k \in 1 .. Len(q)
      BY <1>5, <1>9, <2>2
    <3> QED
      BY <1>4, <1>5, <3>1
  <2>4. TypeList(req, q) = TypePdu(q, unit, count)
    BY <1>10, <1>12
  <2> QED
    BY <1>3, <1>9, <2>2, <2>3, <2>4 DEF l
<1> QED
  BY <1>11, <1>12

\* read_by_type_cb answers once.
LEMMA TypeReply ==
    ASSUME State, NEW req, req.op = "READ_BY_TYPE", NEW alloc
    PROVE  Reply(req, TypeAnswer(req, alloc))
<1> DEFINE q == Db!ReadByType(db, req.start, req.end, req.type)
           P == {h \in 1 .. 18 : h \in req.start .. req.end /\ Attr(db, h).uuid = req.type}
<1>1. Hits(q, db, P)
  BY TypeHits, SMTT(30) DEF State
<1> HIDE DEF q, P
<1>2. CASE TypeAnswer(req, alloc) = TypeList(req, q) /\ q # <<>>
  <2>1. Len(q) > 0
    BY <1>1, <1>2, EmptySeq, LenProperties DEF Hits
  <2>2. CASE \E h : TypeList(req, q) = Error(req, h, "READ_NOT_PERMITTED")
    BY <1>2, <2>2, ErrorReply
  <2>3. CASE \E count \in 1 .. Len(q), unit \in Nat :
                TypeList(req, q) = TypePdu(q, unit, count) /\ 2 + count * (unit + 2) <= mtu.att
    <3>1. PICK count \in 1 .. Len(q), unit \in Nat :
              TypeList(req, q) = TypePdu(q, unit, count) /\ 2 + count * (unit + 2) <= mtu.att
      BY <2>3
    <3>2. RspOf[req.op] = "READ_BY_TYPE_RSP"
      BY RspTable
    <3> QED
      BY <1>2, <3>1, <3>2, PduReply DEF TypePdu
  <2> QED
    BY <1>1, <2>1, <2>2, <2>3, TypeListShape
<1>3. CASE \E h, code : TypeAnswer(req, alloc) = Error(req, h, code)
  BY <1>3, ErrorReply
<1> QED
  BY <1>2, <1>3 DEF TypeAnswer, q

\* encode_find_info_rsp
InfoPdu(q, unit, count) ==
    Pdu("FIND_INFO_RSP", 2 + count * (unit + 2),
        [k \in 1 .. count |-> [handle |-> q[k].handle, uuid |-> q[k].uuid]])

\* encode_find_info_rsp
LEMMA InfoListShape ==
    ASSUME State, NEW q, NEW P, Hits(q, db, P), Len(q) > 0
    PROVE  \E count \in 1 .. Len(q), unit \in Nat :
               InfoList(q) = InfoPdu(q, unit, count) /\ 2 + count * (unit + 2) <= mtu.att
<1> DEFINE unit == q[1].uuid.size
           sizes == [k \in DOMAIN q |-> q[k].uuid.size]
           c == Alike(sizes, unit)
           count == Min({c, Room \div (unit + 2)})
<1>1. /\ q \in Seq(Attributes) /\ Len(q) \in Nat /\ DOMAIN q = 1 .. Len(q) /\ 1 \in 1 .. Len(q)
      /\ mtu.att \in Nat /\ mtu.att >= 23
  BY LenProperties DEF Hits, State, DEFAULT_LE_MTU
<1>2. unit \in Nat /\ unit <= 16
  <2>1. q[1] \in Attributes
    BY <1>1
  <2>2. q[1].uuid \in UuidSet
    BY <2>1 DEF Attributes
  <2> QED
    BY <2>2, UuidType
<1>3. Len(sizes) = Len(q)
  BY <1>1
<1> HIDE DEF sizes, unit
<1>4. c \in 1 .. Len(q)
  BY <1>1, <1>3, AlikeBounds
<1> HIDE DEF c
<1>5. count \in Nat /\ count > 0
  <2>1. unit + 2 <= Room /\ 2 \in 2 .. 4 /\ c \in Nat /\ c > 0
    BY <1>1, <1>2, <1>4 DEF Room
  <2> QED
    BY <1>2, <2>1, OneFits, Zenon
<1>6. 2 + count * (unit + 2) <= mtu.att /\ count <= c
  <2>1. 2 \in 2 .. 4 /\ c \in Nat /\ count <= Min({c, Room \div (unit + 2)})
    BY <1>4, <1>5
  <2> HIDE DEF count
  <2> QED
    BY <1>2, <1>5, <2>1, ListFits, Zenon
<1>7. InfoList(q) = InfoPdu(q, unit, count)
  BY DEF InfoList, InfoPdu, unit, c, sizes
<1> HIDE DEF count
<1>8. count \in 1 .. Len(q)
  BY <1>1, <1>4, <1>5, <1>6
<1> QED
  BY <1>2, <1>6, <1>7, <1>8

\* find_info_cb answers once.
LEMMA InfoReply ==
    ASSUME State, NEW req, req.op = "FIND_INFO"
    PROVE  Reply(req, InfoAnswer(req))
<1> DEFINE q == Db!FindInformation(db, req.start, req.end)
           P == {h \in 1 .. 18 : h \in req.start .. req.end}
<1>1. Hits(q, db, P)
  BY InfoHits DEF State
<1> HIDE DEF q, P
<1>2. CASE InfoAnswer(req) = InfoList(q) /\ q # <<>>
  <2>1. Len(q) > 0
    BY <1>1, <1>2, EmptySeq, LenProperties DEF Hits
  <2>2. PICK count \in 1 .. Len(q), unit \in Nat :
            InfoList(q) = InfoPdu(q, unit, count) /\ 2 + count * (unit + 2) <= mtu.att
    BY <1>1, <2>1, InfoListShape
  <2>3. RspOf[req.op] = "FIND_INFO_RSP"
    BY RspTable
  <2> QED
    BY <1>2, <2>2, <2>3, PduReply DEF InfoPdu
<1>3. CASE \E h, code : InfoAnswer(req) = Error(req, h, code)
  BY <1>3, ErrorReply
<1> QED
  BY <1>2, <1>3 DEF InfoAnswer, q

\* The list of find_by_type_val_att_cb
FoundPdu(q, count) ==
    Pdu("FIND_BY_TYPE_VALUE_RSP", 1 + count * 4,
        [k \in 1 .. count |-> [handle |-> Db!Start(Db!GetService(db, q[k].handle)),
                               end |-> Db!End(Db!GetService(db, q[k].handle))]])

\* find_by_type_val_att_cb
LEMMA FoundShape ==
    ASSUME State, NEW q, NEW P, Hits(q, db, P), Len(q) > 0
    PROVE  LET count == Min({Len(q), (mtu.att - 1) \div 4})
           IN  count \in 1 .. Len(q) /\ 1 + count * 4 <= mtu.att
<1> DEFINE x == (mtu.att - 1) \div 4
           n == Min({Len(q), x})
<1>1. Len(q) \in Nat /\ mtu.att \in Nat /\ mtu.att >= 23
  BY LenProperties DEF Hits, State, DEFAULT_LE_MTU
<1>2. x \in Nat /\ x > 0 /\ 1 + x * 4 <= mtu.att
  BY <1>1
<1> HIDE DEF x
<1>3. n = IF Len(q) <= x THEN Len(q) ELSE x
  BY <1>1, <1>2, Extremes
<1> HIDE DEF n
<1>4. n \in Nat /\ n <= x /\ n \in 1 .. Len(q)
  BY <1>1, <1>2, <1>3
<1>5. 1 + n * 4 <= mtu.att
  BY <1>1, <1>2, <1>4
<1> QED
  BY <1>4, <1>5 DEF x, n

\* find_by_type_val_cb answers once.
LEMMA FoundReply ==
    ASSUME State, NEW req, req.op = "FIND_BY_TYPE_VALUE"
    PROVE  Reply(req, FoundAnswer(req))
<1> DEFINE q == Db!FindByTypeValue(db, req.start, req.end, req.type, req.value)
           P == {h \in 1 .. 18 : /\ h \in req.start .. req.end /\ Attr(db, h).uuid = req.type
                                 /\ Len(Attr(db, h).value) = Len(req.value)
                                 /\ Attr(db, h).value = req.value}
           count == Min({Len(q), (mtu.att - 1) \div 4})
<1>1. Hits(q, db, P)
  BY ValueHits DEF State
<1> HIDE DEF q, P, count
<1>2. CASE FoundAnswer(req) = FoundPdu(q, count) /\ q # <<>>
  <2>1. Len(q) > 0
    BY <1>1, <1>2, EmptySeq, LenProperties DEF Hits
  <2>2. count \in 1 .. Len(q) /\ 1 + count * 4 <= mtu.att
    BY <1>1, <2>1, FoundShape DEF count
  <2>3. RspOf[req.op] = "FIND_BY_TYPE_VALUE_RSP"
    BY RspTable
  <2> QED
    BY <1>2, <2>2, <2>3, PduReply DEF FoundPdu
<1>3. CASE \E h, code : FoundAnswer(req) = Error(req, h, code)
  BY <1>3, ErrorReply
<1> QED
  BY <1>2, <1>3 DEF FoundAnswer, FoundPdu, q, count

\* handle_read_req
LEMMA ReadReply ==
    ASSUME State, NEW req, req.op \in {"READ", "READ_BLOB"}, req.offset \in Nat
    PROVE  Reply(req, ReadAnswer(req))
<1> DEFINE a == At(req.handle)
           data == Value(a, req.offset)
           len == Min({mtu.att - 1, Len(data)})
<1>1. CASE /\ a # None /\ Permits(a, "READ") /\ OffsetFits(a, req.offset)
           /\ ReadAnswer(req) = Pdu(ReadRsp[req.op], 1 + len, SubSeq(data, 1, len))
  <2>1. req.handle \in 1 .. 18 /\ a = Attr(db, req.handle)
    BY <1>1, AtHandle DEF State
  <2>2. Len(data) \in Nat
    <3>1. data \in Seq(Atom)
      BY <1>1, <2>1, ValueType
    <3> QED
      BY <3>1, LenProperties
  <2>3. mtu.att \in Nat /\ mtu.att >= 23
    BY DEF State, DEFAULT_LE_MTU
  <2> HIDE DEF data, a
  <2>4. len = IF mtu.att - 1 <= Len(data) THEN mtu.att - 1 ELSE Len(data)
    BY <2>2, <2>3, Extremes
  <2>5. 1 + len <= mtu.att
    BY <2>2, <2>3, <2>4
  <2>6. ReadRsp[req.op] = RspOf[req.op] /\ ReadRsp[req.op] # "NOTIFICATION"
    BY RspTable
  <2> HIDE DEF len
  <2> QED
    BY <1>1, <2>5, <2>6, PduReply
<1>2. CASE \E h, code : ReadAnswer(req) = Error(req, h, code)
  BY <1>2, ErrorReply
<1> QED
  BY <1>1, <1>2 DEF ReadAnswer

-----------------------------------------------------------------------------
(* Values behind each other *)

\* What FlattenSeq computes, step by step.
FlatUpto(f, seqs) ==
    f = [i \in 1 .. Len(seqs) |-> IF i = 1 THEN seqs[i] ELSE f[i - 1] \o seqs[i]]
Flat(f, seqs, D) ==
    /\ f \in [1 .. Len(seqs) -> Seq(D)] /\ f[1] = seqs[1]
    /\ \A i \in 2 .. Len(seqs) : f[i] = f[i - 1] \o seqs[i]
    /\ FlattenSeq(seqs) = f[Len(seqs)]

\* FlattenSeq has a value, found step by step.
LEMMA Flatten ==
    ASSUME NEW D, NEW seqs \in Seq(Seq(D)), Len(seqs) > 0
    PROVE  \E f : Flat(f, seqs, D)
<1> DEFINE N == Len(seqs)
           S == Seq(D)
           g == [k \in 1 .. N - 1 |-> [x \in S |-> x \o seqs[k + 1]]]
           f == CHOOSE x : FlatUpto(x, seqs)
<1>1. N \in Nat /\ N - 1 \in Nat /\ \A i \in 1 .. N : seqs[i] \in S
  BY LenProperties, ElementOfSeq
<1>2. \A x, y \in S : x \o y \in S
  BY ConcatProperties
<1>3. \E x : FlatUpto(x, seqs)
  <2>1. \A k \in 1 .. N - 1 : k + 1 \in 1 .. N
    BY <1>1
  <2>2. \A k \in 1 .. N - 1 : \A x \in S : g[k][x] = x \o seqs[k + 1]
    OBVIOUS
  <2>3. \A k \in 1 .. N - 1 : \A x \in S : g[k][x] \in S
    BY <1>1, <1>2, <2>1, <2>2
  <2>4. seqs[1] \in S
    BY <1>1
  <2> DEFINE M == N - 1
  <2> HIDE DEF g, S
  <2>5. PICK h : Runs(h, S, M, seqs[1], g)
    BY <1>1, <2>3, <2>4, Recursion
  <2>6. /\ h \in [0 .. M -> S] /\ h[0] = seqs[1]
        /\ \A k \in 1 .. M : h[k] = h[k - 1] \o seqs[k + 1]
    <3>1. \A k \in 1 .. M : k - 1 \in 0 .. M
      BY <1>1
    <3>2. h \in [0 .. M -> S] /\ h[0] = seqs[1] /\ \A k \in 1 .. M : h[k] = g[k][h[k - 1]]
      BY <2>5 DEF Runs
    <3> QED
      BY <2>2, <3>1, <3>2
  <2> DEFINE e == [i \in 1 .. N |-> h[i - 1]]
  <2> HIDE DEF N
  <2>7. \A i \in 1 .. N : e[i] = IF i = 1 THEN seqs[i] ELSE e[i - 1] \o seqs[i]
    <3> TAKE i \in 1 .. N
    <3>1. CASE i = 1
      BY <2>6, <3>1
    <3>2. CASE i # 1
      <4>1. i - 1 \in 1 .. M /\ i - 1 \in 1 .. N /\ (i - 1) + 1 = i
        BY <1>1, <3>2
      <4>2. h[i - 1] = h[(i - 1) - 1] \o seqs[i]
        BY <2>6, <4>1
      <4> QED
        BY <3>2, <4>1, <4>2
    <3> QED
      BY <3>1, <3>2
  <2>8. e = [i \in 1 .. N |-> IF i = 1 THEN seqs[i] ELSE e[i - 1] \o seqs[i]]
    <3>1. e = [i \in 1 .. N |-> e[i]]
      OBVIOUS
    <3> HIDE DEF e
    <3> QED
      BY <2>7, <3>1
  <2> HIDE DEF e
  <2>9. FlatUpto(e, seqs)
    BY <2>8 DEF FlatUpto, N
  <2> QED
    BY <2>9
<1>4. FlatUpto(f, seqs)
  BY <1>3
<1>5. FlattenSeq(seqs) = f[N]
  BY DEF FlattenSeq, FlatUpto
<1> HIDE DEF f
<1>6. f = [i \in 1 .. N |-> IF i = 1 THEN seqs[i] ELSE f[i - 1] \o seqs[i]]
  BY <1>4 DEF FlatUpto
<1> HIDE DEF N
<1>7. \A i \in 1 .. N : f[i] = IF i = 1 THEN seqs[i] ELSE f[i - 1] \o seqs[i]
  BY <1>6
<1>8. 1 \in 1 .. N /\ f[1] = seqs[1] /\ \A i \in 2 .. N : f[i] = f[i - 1] \o seqs[i]
  <2>1. 1 \in 1 .. N /\ \A i \in 2 .. N : i \in 1 .. N /\ i # 1
    BY <1>1 DEF N
  <2> QED
    BY <1>7, <2>1
<1>9. \A i \in 1 .. N : f[i] \in S
  <2> DEFINE T == {k \in 0 .. N - 1 : f[k + 1] \in S}
  <2>1. 0 \in T
    BY <1>1, <1>8
  <2>2. ASSUME NEW k \in 0 .. (N - 1) - 1, k \in T PROVE k + 1 \in T
    <3>1. k + 1 \in 1 .. N /\ k + 2 \in 2 .. N /\ (k + 2) - 1 = k + 1 /\ (k + 1) + 1 = k + 2
          /\ k + 1 \in 0 .. N - 1 /\ k + 2 \in 1 .. N
      BY <1>1
    <3>2. f[k + 2] = f[k + 1] \o seqs[k + 2]
      BY <1>8, <3>1
    <3>3. f[k + 2] \in S
      BY <1>1, <1>2, <2>2, <3>1, <3>2
    <3> QED
      BY <3>1, <3>3
  <2> HIDE DEF T
  <2>3. 0 .. N - 1 \subseteq T
    BY <1>1, <2>1, <2>2, Counting
  <2>4. \A i \in 1 .. N : i - 1 \in 0 .. N - 1 /\ (i - 1) + 1 = i
    BY <1>1
  <2> QED
    BY <2>3, <2>4 DEF T
<1>10. f \in [1 .. N -> S]
  <2>1. DOMAIN f = 1 .. N /\ f = [i \in DOMAIN f |-> f[i]]
    BY <1>6
  <2> QED
    BY <1>9, <2>1
<1> QED
  BY <1>5, <1>8, <1>10 DEF Flat, N

\* FlattenSeq gives a sequence of what it is given sequences of.
LEMMA FlattenType ==
    ASSUME NEW D, NEW seqs \in Seq(Seq(D)), Len(seqs) > 0
    PROVE  FlattenSeq(seqs) \in Seq(D)
<1>1. PICK f : Flat(f, seqs, D)
  BY Flatten
<1>2. Len(seqs) \in 1 .. Len(seqs)
  BY LenProperties
<1> QED
  BY <1>1, <1>2 DEF Flat

\* The values of attributes, behind each other
Several(hs, i) == FlattenSeq([k \in 1 .. i |-> Value(At(hs[k]), 0)])

\* What read_multiple_complete_cb has gathered.
LEMMA SeveralType ==
    ASSUME State, NEW hs \in Seq(Word), NEW i \in 1 .. Len(hs),
           \A k \in 1 .. i : At(hs[k]) # None
    PROVE  Several(hs, i) \in Seq(Atom)
<1> DEFINE s == [k \in 1 .. i |-> Value(At(hs[k]), 0)]
<1>1. i \in Nat /\ i > 0 /\ Len(hs) \in Nat
  BY LenProperties
<1>2. ASSUME NEW k \in 1 .. i PROVE Value(At(hs[k]), 0) \in Seq(Atom)
  <2>1. hs[k] \in 1 .. 18 /\ At(hs[k]) = Attr(db, hs[k])
    BY <1>2, AtHandle DEF State
  <2> DEFINE h == hs[k]
  <2>2. h \in 1 .. 18 /\ At(h) = Attr(db, h)
    BY <2>1
  <2> HIDE DEF h
  <2>3. OffsetFits(Attr(db, h), 0)
    <3>1. Attr(db, h) \in Attributes
      BY <2>2, AttrKind DEF State
    <3>2. Attr(db, h).value \in Seq(Atom)
      BY <3>1 DEF Attributes
    <3>3. Len(Attr(db, h).value) \in Nat
      BY <3>2, LenProperties
    <3> QED
      BY <3>3 DEF OffsetFits
  <2>4. 0 \in Nat
    OBVIOUS
  <2>5. Value(Attr(db, h), 0) \in Seq(Atom)
    BY <2>2, <2>3, <2>4, ValueType, Zenon
  <2> QED
    BY <2>2, <2>5 DEF h
<1>3. s \in Seq(Seq(Atom)) /\ Len(s) = i
  BY <1>1, <1>2
<1> HIDE DEF s
<1>4. FlattenSeq(s) \in Seq(Atom)
  BY <1>1, <1>3, FlattenType
<1> QED
  BY <1>4 DEF Several, s

\* handle_read_multiple_req answers once.
LEMMA MultipleReply ==
    ASSUME State, NEW req, req.op = "READ_MULT", req.handles \in Seq(Word) \ {<<>>},
           NEW alloc
    PROVE  Reply(req, MultipleAnswer(req, alloc))
<1> DEFINE hs == req.handles
           room == mtu.att - 1
           Bad(i) == At(hs[i]) = None \/ ~Permits(At(hs[i]), "READ")
           bad == {i \in DOMAIN hs : Bad(i)}
           full == {i \in DOMAIN hs :
                        (\A k \in 1 .. i : ~Bad(k)) /\ Len(Several(hs, i)) >= room}
           n == IF full # {} THEN Min(full) ELSE Len(hs)
           all == Several(hs, n)
           len == Min({room, Len(all)})
<1>1. hs \in Seq(Word) /\ Len(hs) \in Nat /\ Len(hs) > 0 /\ DOMAIN hs = 1 .. Len(hs)
  BY LenProperties, EmptySeq
<1>2. mtu.att \in Nat /\ mtu.att >= 23
  BY DEF State, DEFAULT_LE_MTU
<1> HIDE DEF hs, room, Bad
<1>3. CASE /\ bad = {} \/ full # {}
           /\ MultipleAnswer(req, alloc) = Pdu("READ_MULT_RSP", 1 + len, SubSeq(all, 1, len))
  <2>1. n \in 1 .. Len(hs) /\ \A k \in 1 .. n : ~Bad(k)
    <3>1. CASE full # {}
      <4>1. full \subseteq Nat
        BY <1>1
      <4> HIDE DEF full
      <4>2. Min(full) \in full
        BY <3>1, <4>1, MinIsLeast
      <4> QED
        BY <1>1, <3>1, <4>2 DEF full
    <3>2. CASE full = {}
      <4>1. bad = {} /\ n = Len(hs)
        BY <1>3, <3>2
      <4> HIDE DEF full, n
      <4> QED
        BY <1>1, <4>1
    <3> QED
      BY <3>1, <3>2
  <2> HIDE DEF n
  <2>2. \A k \in 1 .. n : At(hs[k]) # None
    BY <2>1 DEF Bad
  <2>3. all \in Seq(Atom)
    BY <1>1, <2>1, <2>2, SeveralType
  <2>4. Len(all) \in Nat
    BY <2>3, LenProperties
  <2> HIDE DEF all
  <2>5. len = IF room <= Len(all) THEN room ELSE Len(all)
    BY <1>2, <2>4, Extremes DEF room
  <2>6. 1 + len <= mtu.att
    BY <1>2, <2>4, <2>5 DEF room
  <2>7. RspOf[req.op] = "READ_MULT_RSP"
    BY RspTable
  <2> HIDE DEF len
  <2> QED
    BY <1>3, <2>6, <2>7, PduReply
<1>4. CASE \E h, code : MultipleAnswer(req, alloc) = Error(req, h, code)
  BY <1>4, ErrorReply
<1>5. \/ \E h, code : MultipleAnswer(req, alloc) = Error(req, h, code)
      \/ /\ bad = {} \/ full # {}
         /\ MultipleAnswer(req, alloc) = Pdu("READ_MULT_RSP", 1 + len, SubSeq(all, 1, len))
  BY DEF MultipleAnswer, Several, hs, room, Bad
<1> QED
  BY <1>3, <1>4, <1>5

-----------------------------------------------------------------------------
(* One answer to each request *)

\* Client and server agree on the MTU: it can differ only where the MTU can
\* grow and there may be no memory for the larger buffer.
Agreed ==
    /\ mtu.att = mtu.client
    /\ AllocMayFail => mtu.server = DEFAULT_LE_MTU /\ mtu.client = DEFAULT_LE_MTU

\* Answered, of any exchange.
AnsweredBy(req, out, client) ==
    LET answers == {i \in DOMAIN out : out[i].op # "NOTIFICATION"}
        op == IF req.op = "MALFORMED" THEN req.of ELSE req.op
        final == out[Len(out)]
    IN  /\ \A i \in DOMAIN out : out[i].len <= client
        /\ IF op \in Commands \cup {"none"} THEN answers = {}
           ELSE \/ /\ req.op = "PREP_WRITE" /\ AllocMayFail /\ Len(out) = 2
                   /\ out[1].op = "ERROR" /\ out[1].body[1] = "PREP_WRITE_RSP"
                   /\ out[2].op = "PREP_WRITE_RSP"
                \/ /\ out # <<>> /\ answers = {Len(out)}
                   /\ \/ final.op = RspOf[op]
                      \/ final.op = "ERROR" /\ final.body[1] = op

\* It is Answered of the last exchange, if the process outlived it.
LEMMA AnsweredIs == last.up /\ AnsweredBy(last.req, last.out, mtu.client) => Answered
BY DEF Answered, AnsweredBy, TwiceAnswered

\* Otherwise it ended in prep_write_cb.
LEMMA EndedIs == ~last.up /\ EndedPreparing => Answered
<1> SUFFICES ASSUME ~last.up, EndedPreparing PROVE Answered
  OBVIOUS
<1>1. last.req.op = "PREP_WRITE" /\ last.out = <<>>
  BY DEF EndedPreparing
<1>2. DOMAIN last.out = {}
  BY <1>1
<1>3. "PREP_WRITE" \notin Commands \cup {"none"}
  BY DEF Commands
<1> QED
  BY <1>1, <1>2, <1>3 DEF Answered

\* One PDU that answers.
LEMMA Single ==
    ASSUME NEW req, NEW op, op = (IF req.op = "MALFORMED" THEN req.of ELSE req.op),
           op \notin Commands \cup {"none"},
           NEW p, NEW client, p.op # "NOTIFICATION", p.len <= client,
           p.op = RspOf[op] \/ (p.op = "ERROR" /\ p.body[1] = op)
    PROVE  AnsweredBy(req, <<p>>, client)
<1> DEFINE out == <<p>>
<1>1. DOMAIN out = {1} /\ Len(out) = 1 /\ out[1] = p /\ out # <<>>
  OBVIOUS
<1> HIDE DEF out
<1>2. {i \in DOMAIN out : out[i].op # "NOTIFICATION"} = {Len(out)}
  BY <1>1
<1>3. AnsweredBy(req, out, client)
  BY <1>1, <1>2 DEF AnsweredBy
<1> QED
  BY <1>3 DEF out

\* One PDU that answers, after a notification.
LEMMA Second ==
    ASSUME NEW req, NEW op, op = (IF req.op = "MALFORMED" THEN req.of ELSE req.op),
           op \notin Commands \cup {"none"},
           NEW note, note.op = "NOTIFICATION", NEW p, NEW client, note.len <= client,
           p.op # "NOTIFICATION", p.len <= client,
           p.op = RspOf[op] \/ (p.op = "ERROR" /\ p.body[1] = op)
    PROVE  AnsweredBy(req, <<note, p>>, client)
<1> DEFINE out == <<note, p>>
<1>1. DOMAIN out = {1, 2} /\ Len(out) = 2 /\ out[1] = note /\ out[2] = p /\ out # <<>>
  OBVIOUS
<1> HIDE DEF out
<1>2. {i \in DOMAIN out : out[i].op # "NOTIFICATION"} = {Len(out)}
  BY <1>1
<1>3. \A i \in DOMAIN out : out[i].len <= client
  BY <1>1
<1>4. AnsweredBy(req, out, client)
  BY <1>1, <1>2, <1>3 DEF AnsweredBy
<1> QED
  BY <1>4 DEF out

\* Nothing, or a notification only.
LEMMA Silent ==
    ASSUME NEW req, NEW op, op = (IF req.op = "MALFORMED" THEN req.of ELSE req.op),
           op \in Commands \cup {"none"}, NEW client,
           NEW out, out = <<>> \/ \E note : /\ out = <<note>> /\ note.op = "NOTIFICATION"
                                            /\ note.len <= client
    PROVE  AnsweredBy(req, out, client)
<1>1. \A i \in DOMAIN out : out[i].op = "NOTIFICATION" /\ out[i].len <= client
  <2>1. CASE out = <<>>
    BY <2>1
  <2>2. ASSUME NEW note, out = <<note>>, note.op = "NOTIFICATION", note.len <= client
        PROVE  \A i \in DOMAIN out : out[i].op = "NOTIFICATION" /\ out[i].len <= client
    <3>1. DOMAIN out = {1} /\ out[1] = note
      BY <2>2
    <3> QED
      BY <2>2, <3>1
  <2> QED
    BY <2>1, <2>2
<1>2. {i \in DOMAIN out : out[i].op # "NOTIFICATION"} = {}
  BY <1>1
<1> QED
  BY <1>1, <1>2 DEF AnsweredBy

\* A notification is cut to the MTU.
LEMMA NotificationFits ==
    ASSUME State, NEW h, NEW n \in Nat
    PROVE  Notification(h, n).op = "NOTIFICATION" /\ Notification(h, n).len <= mtu.att
<1> DEFINE m == Min({mtu.att - 1, n + 2})
<1>1. mtu.att \in Nat /\ mtu.att >= 23
  BY DEF State, DEFAULT_LE_MTU
<1>2. m = IF mtu.att - 1 <= n + 2 THEN mtu.att - 1 ELSE n + 2
  BY <1>1, Extremes
<1> HIDE DEF m
<1>3. m <= mtu.att - 1 /\ m \in Nat
  BY <1>1, <1>2
<1>4. 1 + m <= mtu.att
  BY <1>1, <1>3
<1>5. Notification(h, n) = [op |-> "NOTIFICATION", len |-> 1 + m, body |-> <<h>>]
  BY DEF Notification, Pdu, m
<1> QED
  BY <1>4, <1>5

\* exchange_mtu_cb sets the MTU of both ends; nothing else sets one.
LEMMA AgreedKept ==
    ASSUME State, Agreed, [Next]_vars
    PROVE  Agreed'
<1>1. CASE UNCHANGED mtu
  BY <1>1 DEF Agreed
<1>2. ASSUME NEW req \in Requests, ExchangeMtu(req) PROVE Agreed'
  <2> DEFINE final == Max({Min({req.mtu, mtu.server}), DEFAULT_LE_MTU})
  <2>1. PICK alloc \in Alloc :
            mtu' = [server |-> final, att |-> IF alloc THEN final ELSE mtu.att,
                    client |-> final]
    BY <1>2 DEF ExchangeMtu
  <2>2. CASE ~AllocMayFail
    <3>1. alloc = TRUE
      BY <2>1, <2>2 DEF Alloc
    <3> HIDE DEF final
    <3> QED
      BY <2>1, <2>2, <3>1 DEF Agreed
  <2>3. CASE AllocMayFail
    <3>1. mtu.server = 23 /\ mtu.client = 23 /\ mtu.att = 23
      BY <2>3 DEF Agreed, DEFAULT_LE_MTU
    <3>2. req.mtu \in Nat
      <4>1. req.mtu \in Word
        BY <1>2, RequestTypes DEF ExchangeMtu
      <4>2. Word \subseteq Nat
        BY DEF Word
      <4> QED
        BY <4>1, <4>2
    <3> DEFINE d == DEFAULT_LE_MTU
               m == Min({req.mtu, mtu.server})
    <3>3. d = 23 /\ d \in Int /\ mtu.server \in Int /\ final = Max({m, d})
      BY <3>1 DEF DEFAULT_LE_MTU
    <3> HIDE DEF d
    <3>4. m = IF req.mtu <= mtu.server THEN req.mtu ELSE mtu.server
      BY <3>2, <3>3, Extremes
    <3>5. m \in Int /\ m <= 23
      BY <3>1, <3>2, <3>4
    <3> HIDE DEF m, final
    <3>6. final = IF m <= d THEN d ELSE m
      BY <3>3, <3>5, Extremes
    <3>7. final = 23
      BY <3>3, <3>5, <3>6
    <3> QED
      BY <2>1, <3>1, <3>7 DEF Agreed, DEFAULT_LE_MTU
  <2> QED
    BY <2>2, <2>3
<1>3. ASSUME NEW req \in Requests, ~ExchangeMtu(req),
             \/ Look(req) \/ ExchangeMtu(req) \/ WriteRequest(req)
             \/ Prepare(req) \/ Execute(req) \/ Malformed(req)
      PROVE  UNCHANGED mtu
  BY <1>3, Zenon DEF Look, WriteRequest, Prepare, Execute, Malformed
<1>4. CASE UNCHANGED vars
  BY <1>1, <1>4 DEF vars
<1> QED
  BY <1>1, <1>2, <1>3, <1>4, Zenon DEF Next

\* bt_gatt_server_new
LEMMA InitAgreed ==
    ASSUME AllocMayFail => MtuArgument <= DEFAULT_LE_MTU, Init
    PROVE  Agreed /\ Answered
<1> DEFINE d == DEFAULT_LE_MTU
<1>1. MtuArgument \in Nat /\ d = 23
  BY BoundsAssumption DEF DEFAULT_LE_MTU
<1> HIDE DEF d
<1>2. Max({MtuArgument, d}) = IF MtuArgument <= d THEN d ELSE MtuArgument
  BY <1>1, Extremes
<1>3. /\ mtu.server = Max({MtuArgument, d}) /\ mtu.att = d /\ mtu.client = d
      /\ last = [req |-> NoRequest, out |-> <<>>, up |-> TRUE]
  BY DEF Init, d
<1>4. AllocMayFail => mtu.server = d
  <2>1. AllocMayFail => MtuArgument <= d
    BY DEF d
  <2> QED
    BY <1>1, <1>2, <1>3, <2>1
<1>5. Agreed
  BY <1>3, <1>4 DEF Agreed, d
<1>6. last.req.op = "none" /\ last.out = <<>> /\ last.up
  BY <1>3 DEF NoRequest
<1>7. AnsweredBy(last.req, last.out, mtu.client)
  BY <1>6, Silent
<1> QED
  BY <1>5, <1>6, <1>7, AnsweredIs

\* Two sequences of one.
LEMMA Pair == ASSUME NEW a, NEW b PROVE <<a>> \o <<b>> = <<a, b>>
<1> DEFINE S == {a, b}
           s == <<a>>
           t == <<b>>
           u == <<a, b>>
<1>1. s \in Seq(S) /\ t \in Seq(S) /\ u \in Seq(S) /\ Len(s) = 1 /\ Len(t) = 1 /\ Len(u) = 2
      /\ s[1] = a /\ t[1] = b /\ u[1] = a /\ u[2] = b
  OBVIOUS
<1> HIDE DEF s, t, u
<1>2. s \o t \in Seq(S) /\ Len(s \o t) = 2 /\ (s \o t)[1] = a /\ (s \o t)[2] = b
  BY <1>1, ConcatProperties
<1>3. \A i \in 1 .. 2 : i = 1 \/ i = 2
  OBVIOUS
<1>4. s \o t = u
  BY <1>1, <1>2, <1>3, SeqEqual
<1> QED
  BY <1>4 DEF s, t, u

\* Every request is answered as it should be.
LEMMA AnsweredKept ==
    ASSUME State, Agreed, Answered, [Next]_vars
    PROVE  Answered'
<1> DEFINE Op(req) == IF req.op = "MALFORMED" THEN req.of ELSE req.op
<1>1. /\ mtu.att = mtu.client /\ mtu.att \in Nat /\ mtu.att >= 23
      /\ mtu'.att = mtu'.client /\ mtu'.att \in Nat /\ mtu'.att >= 23
  <2>1. Agreed' /\ State'
    BY AgreedKept, StateKept
  <2> QED
    BY <2>1 DEF Agreed, State, DEFAULT_LE_MTU
<1>2. ASSUME AnsweredBy(last'.req, last'.out, mtu'.client), last'.up
      PROVE  Answered'
  <2>1. (last.up /\ AnsweredBy(last.req, last.out, mtu.client) => Answered)'
    BY AnsweredIs, PTL
  <2> QED
    BY <1>2, <2>1
<1>3. ASSUME NEW req, NEW p, Sent(req, <<p>>), Reply(req, p), UNCHANGED mtu,
             req.op \in DOMAIN RspOf
      PROVE  Answered'
  <2>1. req.op \notin Commands \cup {"none"} /\ req.op # "MALFORMED"
    BY <1>3 DEF Commands, RspOf
  <2>2. p.op # "NOTIFICATION" /\ p.len <= mtu'.client
        /\ (p.op = RspOf[req.op] \/ (p.op = "ERROR" /\ p.body[1] = req.op))
    BY <1>1, <1>3 DEF Reply
  <2>3. AnsweredBy(req, <<p>>, mtu'.client)
    BY <2>1, <2>2, Single
  <2>4. last'.req = req /\ last'.out = <<p>> /\ last'.up
    BY <1>3 DEF Sent
  <2> QED
    BY <1>2, <2>3, <2>4
<1>4. ASSUME NEW req \in Requests, Look(req) PROVE Answered'
  <2>1. UNCHANGED mtu
    BY <1>4 DEF Look
  <2>2. \E p : Reply(req, p) /\ Sent(req, <<p>>) /\ req.op \in DOMAIN RspOf
    <3>1. CASE req.op = "READ_BY_GROUP" /\ Sent(req, <<GroupAnswer(req)>>)
      BY <3>1, GroupReply DEF RspOf
    <3>2. CASE req.op = "READ_BY_TYPE" /\ \E alloc \in Alloc : Sent(req, <<TypeAnswer(req, alloc)>>)
      BY <3>2, TypeReply DEF RspOf
    <3>3. CASE req.op = "FIND_INFO" /\ Sent(req, <<InfoAnswer(req)>>)
      BY <3>3, InfoReply DEF RspOf
    <3>4. CASE req.op = "FIND_BY_TYPE_VALUE" /\ Sent(req, <<FoundAnswer(req)>>)
      BY <3>4, FoundReply DEF RspOf
    <3>5. CASE req.op \in {"READ", "READ_BLOB"} /\ Sent(req, <<ReadAnswer(req)>>)
      <4>1. req.offset \in Nat
        <5>1. req.offset \in Word
          BY <3>5, RequestTypes
        <5>2. Word \subseteq Nat
          BY DEF Word
        <5> QED
          BY <5>1, <5>2
      <4> QED
        BY <3>5, <4>1, ReadReply DEF RspOf
    <3>6. CASE req.op = "READ_MULT" /\ \E alloc \in Alloc : Sent(req, <<MultipleAnswer(req, alloc)>>)
      <4>1. req.handles \in Seq(Word) \ {<<>>}
        BY <3>6, RequestTypes
      <4> QED
        BY <3>6, <4>1, MultipleReply DEF RspOf
    <3> QED
      BY <1>4, <3>1, <3>2, <3>3, <3>4, <3>5, <3>6, Zenon DEF Look
  <2> QED
    BY <1>3, <2>1, <2>2
<1>5. ASSUME NEW req \in Requests, ExchangeMtu(req) PROVE Answered'
  <2> DEFINE p == Pdu("MTU_RSP", 3, <<mtu.server>>)
  <2>1. req.op = "MTU" /\ last' = [req |-> req, out |-> <<p>>, up |-> TRUE]
    BY <1>5 DEF ExchangeMtu, Sent
  <2>2. p.op = "MTU_RSP" /\ p.len = 3
    BY DEF Pdu
  <2> HIDE DEF p
  <2>3. p.len <= mtu'.client
    BY <1>1, <2>2
  <2>4. "MTU" \notin Commands \cup {"none"} /\ RspOf["MTU"] = "MTU_RSP"
    BY RspTable DEF Commands
  <2>5. AnsweredBy(req, <<p>>, mtu'.client)
    BY <2>1, <2>2, <2>3, <2>4, Single
  <2> QED
    BY <1>2, <2>1, <2>5
<1>6. ASSUME NEW req \in Requests, Malformed(req) PROVE Answered'
  <2>1. UNCHANGED mtu /\ req.op = "MALFORMED" /\ req.of \in Opcodes
    BY <1>6, RequestTypes DEF Malformed
  <2>2. CASE req.of = "WRITE_CMD"
    <3>1. last' = [req |-> req, out |-> <<>>, up |-> TRUE]
      BY <1>6, <2>2 DEF Malformed, Sent
    <3>2. AnsweredBy(req, <<>>, mtu'.client)
      BY <2>1, <2>2, Silent DEF Commands
    <3> QED
      BY <1>2, <3>1, <3>2
  <2>3. CASE req.of # "WRITE_CMD"
    <3> DEFINE p == Error([op |-> req.of], 0, "INVALID_PDU")
    <3>1. last' = [req |-> req, out |-> <<p>>, up |-> TRUE]
      BY <1>6, <2>3 DEF Malformed, Sent
    <3>2. p.op = "ERROR" /\ p.len = 5 /\ p.body[1] = req.of
      BY DEF Error, Pdu, ERROR_LEN
    <3> HIDE DEF p
    <3>3. p.len <= mtu'.client
      BY <1>1, <3>2
    <3>4. req.of \notin Commands \cup {"none"}
      BY <2>1, <2>3, OpcodeSet DEF Commands
    <3>5. AnsweredBy(req, <<p>>, mtu'.client)
      BY <2>1, <3>2, <3>3, <3>4, Single
    <3> QED
      BY <1>2, <3>1, <3>5
  <2> QED
    BY <2>2, <2>3
<1>7. ASSUME NEW req \in Requests, Execute(req) PROVE Answered'
  <2>1. UNCHANGED mtu /\ req.op = "EXEC_WRITE" /\ req.op \in DOMAIN RspOf
    BY <1>7 DEF Execute, RspOf
  <2>2. Sent(req, <<Executed>>) \/ \E h, code : Sent(req, <<Error(req, h, code)>>)
    BY <1>7, Zenon DEF Execute
  <2>3. Reply(req, Executed)
    BY <1>1, <2>1, RspTable DEF Reply, Executed, Pdu
  <2>4. \A h, code : Reply(req, Error(req, h, code))
    BY ErrorReply
  <2> QED
    BY <1>3, <2>1, <2>2, <2>3, <2>4
<1>8. ASSUME NEW req \in Requests, Prepare(req) PROVE Answered'
  <2> DEFINE rsp == Pdu("PREP_WRITE_RSP", 5 + Len(req.value), <<req>>)
             err == Error([op |-> "PREP_WRITE_RSP"], req.handle, "INSUFFICIENT_RESOURCES")
  <2>1. UNCHANGED mtu /\ req.op = "PREP_WRITE" /\ req.op \in DOMAIN RspOf
    BY <1>8 DEF Prepare, RspOf
  <2>2. \/ \E h, code : Sent(req, <<Error(req, h, code)>>)
        \/ Sent(req, <<rsp>>)
        \/ FALSE \in Alloc /\ Sent(req, <<err, rsp>>)
        \/ /\ FALSE \in Alloc /\ Crashed(req) /\ UNCHANGED <<db, prep>>
           /\ ~(Len(prep) >= MaxPrep) /\ At(req.handle) # None
           /\ ~~Permits(At(req.handle), "WRITE")
    BY <1>8, Zenon DEF Prepare
  <2>3. 5 + Len(req.value) <= mtu.att
    BY <1>8 DEF Prepare, Carries
  <2>4. rsp.op = "PREP_WRITE_RSP" /\ rsp.len <= mtu.att
    BY <2>3 DEF Pdu
  <2>5. err.op = "ERROR" /\ err.len = 5 /\ err.body[1] = "PREP_WRITE_RSP"
    BY DEF Error, Pdu, ERROR_LEN
  <2> HIDE DEF rsp, err
  <2>6. Reply(req, rsp)
    BY <2>1, <2>4, RspTable DEF Reply
  <2>7. \A h, code : Reply(req, Error(req, h, code))
    BY ErrorReply
  <2>8. ASSUME FALSE \in Alloc, Sent(req, <<err, rsp>>) PROVE Answered'
    <3>1. AllocMayFail
      BY <2>8, AllocAssumption DEF Alloc
    <3> DEFINE out == <<err, rsp>>
    <3>2. last'.req = req /\ last'.out = out /\ last'.up
      BY <2>8 DEF Sent
    <3>3. DOMAIN out = {1, 2} /\ Len(out) = 2 /\ out[1] = err /\ out[2] = rsp
      OBVIOUS
    <3> HIDE DEF out
    <3>4. \A i \in DOMAIN out : out[i].len <= mtu'.client
      BY <1>1, <2>1, <2>4, <2>5, <3>3
    <3>5. "PREP_WRITE" \notin Commands \cup {"none"} /\ req.op # "MALFORMED"
      BY <2>1 DEF Commands
    <3>6. AnsweredBy(req, out, mtu'.client)
      BY <2>1, <2>4, <2>5, <3>1, <3>3, <3>4, <3>5 DEF AnsweredBy
    <3> QED
      BY <1>2, <3>2, <3>6
  <2>9. ASSUME FALSE \in Alloc, Crashed(req), UNCHANGED <<db, prep>>,
               ~(Len(prep) >= MaxPrep), At(req.handle) # None,
               ~~Permits(At(req.handle), "WRITE")
        PROVE  Answered'
    <3>1. AllocMayFail
      BY <2>9, AllocAssumption DEF Alloc
    <3>2. last'.req = req /\ last'.out = <<>> /\ ~last'.up
      BY <2>9 DEF Crashed
    <3>3. Len(prep) < MaxPrep
      <4>1. Len(prep) \in Nat /\ MaxPrep \in Nat
        BY LenProperties, BoundsAssumption DEF State
      <4> QED
        BY <2>9, <4>1
    <3>4. At(req.handle)' = At(req.handle)
      BY <2>9 DEF At
    <3>5. EndedPreparing'
      BY <2>1, <2>9, <3>1, <3>2, <3>3, <3>4 DEF EndedPreparing, Permits
    <3>6. (~last.up /\ EndedPreparing => Answered)'
      BY EndedIs, PTL
    <3> QED
      BY <3>2, <3>5, <3>6
  <2> QED
    BY <1>3, <2>1, <2>2, <2>6, <2>7, <2>8, <2>9
<1>9. ASSUME NEW req \in Requests, WriteRequest(req) PROVE Answered'
  <2> DEFINE rsp == Pdu("WRITE_RSP", 1, <<>>)
             Tail0 == IF req.op = "WRITE_CMD" THEN <<>> ELSE <<rsp>>
  <2>1. UNCHANGED mtu /\ req.op \in {"WRITE", "WRITE_CMD"} /\ req.op # "MALFORMED"
    BY <1>9, Zenon DEF WriteRequest
  <2>2. "WRITE_CMD" \in Commands /\ "WRITE" \notin Commands \cup {"none"}
        /\ "WRITE" \in DOMAIN RspOf
    BY DEF Commands, RspOf
  <2>3. Reply(req, rsp) \/ req.op = "WRITE_CMD"
    BY <1>1, <2>1, RspTable DEF Reply, Pdu
  <2>4. \/ \E code : Refused(req, code)
        \/ \E a : Made(req, a)
    BY <1>9, Zenon DEF WriteRequest
  <2>5. ASSUME NEW code, Refused(req, code) PROVE Answered'
    <3>1. CASE req.op = "WRITE_CMD"
      <4>1. last' = [req |-> req, out |-> <<>>, up |-> TRUE]
        BY <2>5, <3>1 DEF Refused, Sent
      <4>2. AnsweredBy(req, <<>>, mtu'.client)
        BY <2>1, <2>2, <3>1, Silent
      <4> QED
        BY <1>2, <4>1, <4>2
    <3>2. CASE req.op # "WRITE_CMD"
      <4>1. Sent(req, <<Error(req, req.handle, code)>>)
        BY <2>5, <3>2 DEF Refused
      <4> QED
        BY <1>3, <2>1, <2>2, <3>2, <4>1, ErrorReply
    <3> QED
      BY <3>1, <3>2
  <2>6. ASSUME NEW a, Made(req, a) PROVE Answered'
    <3>1. PICK notices : /\ \/ notices = <<>>
                            \/ \E n \in Notices : notices = <<Notification(14, n)>>
                         /\ Sent(req, notices \o Tail0)
      BY <2>6, Zenon DEF Made
    <3>2. last'.req = req /\ last'.out = notices \o Tail0 /\ last'.up
      BY <3>1 DEF Sent
    <3>3. CASE notices = <<>>
      <4>1. CASE req.op = "WRITE_CMD"
        <5>1. last'.out = <<>>
          BY <3>2, <3>3, <4>1
        <5>2. AnsweredBy(req, <<>>, mtu'.client)
          BY <2>1, <2>2, <4>1, Silent
        <5> QED
          BY <1>2, <3>2, <5>1, <5>2
      <4>2. CASE req.op # "WRITE_CMD"
        <5> HIDE DEF rsp
        <5>1. notices \o Tail0 = <<rsp>>
          BY <3>3, <4>2
        <5>2. Sent(req, <<rsp>>)
          BY <3>1, <5>1
        <5> QED
          BY <1>3, <2>1, <2>2, <2>3, <4>2, <5>2
      <4> QED
        BY <4>1, <4>2
    <3>4. ASSUME NEW n \in Notices, notices = <<Notification(14, n)>> PROVE Answered'
      <4> DEFINE note == Notification(14, n)
      <4>1. n \in Nat
        BY BoundsAssumption
      <4>2. note.op = "NOTIFICATION" /\ note.len <= mtu'.client
        BY <1>1, <2>1, <4>1, NotificationFits
      <4> HIDE DEF note
      <4>3. notices = <<note>>
        BY <3>4 DEF note
      <4>4. CASE req.op = "WRITE_CMD"
        <5>1. last'.out = <<note>>
          BY <3>2, <4>3, <4>4
        <5>2. AnsweredBy(req, <<note>>, mtu'.client)
          BY <2>1, <2>2, <4>2, <4>4, Silent
        <5> QED
          BY <1>2, <3>2, <5>1, <5>2
      <4>5. CASE req.op # "WRITE_CMD"
        <5> HIDE DEF rsp
        <5>1. notices \o Tail0 = <<note, rsp>>
          <6>1. Tail0 = <<rsp>>
            BY <4>5
          <6>2. <<note>> \o <<rsp>> = <<note, rsp>>
            BY Pair
          <6> QED
            BY <4>3, <6>1, <6>2
        <5>2. req.op = "WRITE" /\ Reply(req, rsp)
          BY <2>1, <2>3, <4>5
        <5>3. rsp.op # "NOTIFICATION" /\ rsp.len <= mtu'.client
              /\ (rsp.op = RspOf[req.op] \/ (rsp.op = "ERROR" /\ rsp.body[1] = req.op))
          BY <1>1, <2>1, <5>2 DEF Reply
        <5>4. AnsweredBy(req, <<note, rsp>>, mtu'.client)
          BY <2>1, <2>2, <4>2, <5>2, <5>3, Second
        <5> QED
          BY <1>2, <3>2, <5>1, <5>4
      <4> QED
        BY <4>4, <4>5
    <3> QED
      BY <3>1, <3>3, <3>4
  <2> QED
    BY <2>4, <2>5, <2>6
<1>10. CASE UNCHANGED vars
  BY <1>10 DEF vars, Answered, TwiceAnswered, EndedPreparing, At, Permits
<1> QED
  BY <1>4, <1>5, <1>6, <1>7, <1>8, <1>9, <1>10, Zenon DEF Next

\* A request is answered once, after the notifications it causes, a command
\* not at all, and nothing is longer than the MTU the client knows of
\* (gatt-server.c), provided that the buffer of bt_att cannot fail to grow:
\* there is memory, or, as in the daemon, the MTU never exceeds the default.
THEOREM AnswersHold ==
    ASSUME AllocMayFail => MtuArgument <= DEFAULT_LE_MTU
    PROVE  Spec => []Answered
<1> DEFINE Inv == State /\ Agreed /\ Answered
<1>1. Init => Inv
  BY InitState, InitAgreed
<1>2. Inv /\ [Next]_vars => Inv'
  BY StateKept, AgreedKept, AnsweredKept
<1>3. Inv => Answered
  OBVIOUS
<1> QED
  BY <1>1, <1>2, <1>3, PTL DEF Spec

-----------------------------------------------------------------------------
(* A value read in pieces *)

\* s cuts v at the places e.
Cut(s, v, e, n, D) ==
    /\ v \in Seq(D) /\ n \in Nat /\ n > 0 /\ e \in [0 .. n -> Nat]
    /\ e[0] = 0 /\ e[n] = Len(v)
    /\ \A k \in 1 .. n : e[k - 1] <= e[k] /\ e[k] <= Len(v)
    /\ s \in Seq(Seq(D)) /\ Len(s) = n
    /\ \A k \in 1 .. n : s[k] = SubSeq(v, e[k - 1] + 1, e[k])

\* Adjacent pieces of a sequence, behind each other.
LEMMA Joined ==
    ASSUME NEW s, NEW v, NEW e, NEW n, NEW D, Cut(s, v, e, n, D)
    PROVE  FlattenSeq(s) = v
<1>0. /\ v \in Seq(D) /\ n \in Nat /\ n > 0 /\ e \in [0 .. n -> Nat]
      /\ e[0] = 0 /\ e[n] = Len(v)
      /\ \A k \in 1 .. n : e[k - 1] <= e[k] /\ e[k] <= Len(v)
      /\ s \in Seq(Seq(D)) /\ Len(s) = n
      /\ \A k \in 1 .. n : s[k] = SubSeq(v, e[k - 1] + 1, e[k])
  BY DEF Cut
<1> USE <1>0
<1>1. PICK f : Flat(f, s, D)
  BY Flatten
<1>2. /\ f[1] = s[1] /\ FlattenSeq(s) = f[n]
      /\ \A i \in 2 .. n : f[i] = f[i - 1] \o s[i]
  BY <1>1 DEF Flat
<1> DEFINE T == {k \in 0 .. n - 1 : f[k + 1] = SubSeq(v, 1, e[k + 1])}
<1>3. 0 \in T
  <2>1. 1 \in 1 .. n /\ e[1 - 1] = 0 /\ 0 + 1 = 1 /\ 0 \in 0 .. n - 1
    OBVIOUS
  <2>2. f[1] = SubSeq(v, 1, e[1])
    BY <1>2, <2>1
  <2> QED
    BY <2>1, <2>2
<1>4. ASSUME NEW k \in 0 .. (n - 1) - 1, k \in T PROVE k + 1 \in T
  <2>1. k + 2 \in 2 .. n /\ k + 2 \in 1 .. n /\ k + 1 \in 1 .. n /\ (k + 2) - 1 = k + 1
        /\ (k + 1) + 1 = k + 2 /\ k + 1 \in 0 .. n - 1 /\ k + 1 \in 0 .. n /\ k + 2 \in 0 .. n
    OBVIOUS
  <2> DEFINE a == e[k + 1]
             b == e[k + 2]
  <2>2. a \in Nat /\ b \in Nat /\ a <= b /\ b <= Len(v) /\ Len(v) \in Nat
    BY <2>1, LenProperties
  <2>3. f[k + 2] = SubSeq(v, 1, a) \o SubSeq(v, a + 1, b)
    BY <1>2, <1>4, <2>1
  <2> HIDE DEF a, b
  <2>4. SubSeq(v, 1, a) \o SubSeq(v, a + 1, b) = SubSeq(v, 1, b)
    <3> DEFINE one == 1
    <3> DEFINE l == Len(v)
    <3>1. one \in 1 .. l + 1 /\ a \in one - 1 .. l /\ b \in a .. l
      <4>1. l \in Nat /\ a <= l /\ b <= l /\ one = 1
        BY <2>2
      <4> HIDE DEF l, one
      <4> QED
        BY <2>2, <4>1
    <3> HIDE DEF one
    <3>2. SubSeq(v, one, a) \o SubSeq(v, a + 1, b) = SubSeq(v, one, b)
      BY <3>1, ConcatAdjacentSubSeq
    <3> QED
      BY <3>2 DEF one
  <2> QED
    BY <2>1, <2>3, <2>4 DEF a, b
<1> HIDE DEF T
<1>5. 0 .. n - 1 \subseteq T
  <2>1. n - 1 \in Nat
    OBVIOUS
  <2> QED
    BY <1>3, <1>4, <2>1, Counting
<1>6. n - 1 \in T /\ (n - 1) + 1 = n
  BY <1>5
<1>7. f[n] = SubSeq(v, 1, Len(v))
  BY <1>6 DEF T
<1> QED
  BY <1>2, <1>7, SubSeqFull

\* What a Read or a Read Blob of a stored value gives.
LEMMA StoredPiece ==
    ASSUME State, NEW h \in Stores, NEW req, req.op \in {"READ", "READ_BLOB"},
           req.handle = h, NEW o \in Nat, req.offset = o, o <= Len(At(h).value),
           NEW e, e = IF o + (mtu.att - 1) <= Len(At(h).value)
                      THEN o + (mtu.att - 1) ELSE Len(At(h).value)
    PROVE  /\ ReadAnswer(req).op = ReadRsp[req.op]
           /\ ReadAnswer(req).body = SubSeq(At(h).value, o + 1, e)
<1> DEFINE a == At(h)
           v == a.value
           data == Value(a, o)
           room == mtu.att - 1
           len == Min({room, Len(data)})
<1>1. h \in 1 .. 18 /\ a = Attr(db, h) /\ a \in Attributes /\ a \in Kind(h)
  <2>1. h \in 1 .. 18 /\ Layout(db)
    BY DEF State, Stores
  <2>2. a = Attr(db, h) /\ a \in Kind(h)
    BY <2>1, AtHandle
  <2> QED
    BY <2>1, <2>2, KindType
<1>2. a # None
  BY <1>1, NoneAssumption
<1>3. a.read = "stored" /\ a.write = "stored"
  BY DEF Stores
<1>4. Permits(a, "READ")
  <2>1. a.perms = PermsOf(h) /\ a.write = WriteOf(h)
    BY <1>1 DEF Kind
  <2>2. h # 18
    BY <1>3, <2>1 DEF WriteOf
  <2>3. "READ" \in PermsOf(h)
    BY <1>1, <2>2 DEF PermsOf, RW
  <2> QED
    BY <2>1, <2>3 DEF Permits
<1>5. OffsetFits(a, o)
  BY DEF OffsetFits
<1>6. v \in Seq(Atom) /\ Len(v) \in Nat
  <2>1. v \in Seq(Atom)
    BY <1>1 DEF Attributes
  <2> QED
    BY <2>1, LenProperties
<1>7. room \in Nat /\ room > 0
  BY DEF State, DEFAULT_LE_MTU
<1>8. ReadAnswer(req) = Pdu(ReadRsp[req.op], 1 + len, SubSeq(data, 1, len))
  BY <1>2, <1>4, <1>5 DEF ReadAnswer
<1>9. data = SubSeq(v, o + 1, Len(v))
  <2>1. a.read \notin Cccs /\ a.read # "svc_chngd"
    BY <1>3 DEF Cccs, OnByte
  <2> QED
    BY <1>3, <2>1 DEF Value
<1> HIDE DEF data, v, room, len, a
<1>10. o <= Len(v) /\ e = IF o + room <= Len(v) THEN o + room ELSE Len(v)
  BY DEF v, a, room
<1>11. /\ data \in Seq(Atom) /\ Len(data) = Len(v) - o
       /\ \A i \in 1 .. Len(v) - o : data[i] = v[o + i]
  <2>1. o + 1 \in Int /\ Len(v) \in Int /\ \A i \in o + 1 .. Len(v) : v[i] \in Atom
    BY <1>6
  <2> DEFINE m == o + 1
             l == Len(v)
  <2>2. m \in Int /\ l \in Int /\ \A i \in m .. l : v[i] \in Atom
    BY <2>1
  <2>3. m = o + 1 /\ l = Len(v) /\ l \in Nat
    BY <1>6
  <2>4. data = SubSeq(v, m, l)
    BY <1>9
  <2> HIDE DEF m, l
  <2>5. /\ SubSeq(v, m, l) \in Seq(Atom)
        /\ Len(SubSeq(v, m, l)) = IF m <= l THEN l - m + 1 ELSE 0
        /\ \A i \in 1 .. l - m + 1 : SubSeq(v, m, l)[i] = v[m + i - 1]
    BY <2>2, SubSeqProperties
  <2>6. l - m + 1 = Len(v) - o /\ \A i \in 1 .. Len(v) - o : m + i - 1 = o + i
    BY <1>6, <2>3
  <2>7. (IF m <= l THEN l - m + 1 ELSE 0) = Len(v) - o
    BY <1>6, <1>10, <2>3
  <2> QED
    BY <2>4, <2>5, <2>6, <2>7
<1>12. len = IF room <= Len(v) - o THEN room ELSE Len(v) - o
  <2>1. Len(data) \in Int /\ room \in Int
    BY <1>6, <1>7, <1>11
  <2> QED
    BY <1>11, <2>1, Extremes DEF len
<1>13. len \in Nat /\ len <= Len(v) - o /\ e = o + len /\ e \in Nat /\ e <= Len(v)
  BY <1>6, <1>7, <1>10, <1>12
<1>14. SubSeq(data, 1, len) = SubSeq(v, o + 1, e)
  <2> DEFINE p == SubSeq(data, 1, len)
             q == SubSeq(v, o + 1, e)
  <2>1. p \in Seq(Atom) /\ Len(p) = len /\ \A i \in 1 .. len : p[i] = data[i]
    <3>1. \A i \in 1 .. len : data[i] \in Atom
      BY <1>6, <1>11, <1>13
    <3> DEFINE m == 1
    <3>2. m \in Int /\ len \in Int /\ \A i \in m .. len : data[i] \in Atom
      BY <1>13, <3>1
    <3>3. m = 1
      OBVIOUS
    <3> HIDE DEF m
    <3>4. /\ SubSeq(data, m, len) \in Seq(Atom)
          /\ Len(SubSeq(data, m, len)) = IF m <= len THEN len - m + 1 ELSE 0
          /\ \A i \in 1 .. len - m + 1 : SubSeq(data, m, len)[i] = data[m + i - 1]
      BY <3>2, SubSeqProperties
    <3>5. len - m + 1 = len /\ (IF m <= len THEN len - m + 1 ELSE 0) = len
          /\ \A i \in 1 .. len : m + i - 1 = i
      BY <1>13, <3>3
    <3> QED
      BY <3>3, <3>4, <3>5
  <2>2. q \in Seq(Atom) /\ Len(q) = len /\ \A i \in 1 .. len : q[i] = v[o + i]
    <3> DEFINE m == o + 1
    <3>1. m \in Int /\ e \in Int /\ \A i \in m .. e : v[i] \in Atom
      BY <1>6, <1>13
    <3>2. m = o + 1
      OBVIOUS
    <3> HIDE DEF m
    <3>3. /\ SubSeq(v, m, e) \in Seq(Atom)
          /\ Len(SubSeq(v, m, e)) = IF m <= e THEN e - m + 1 ELSE 0
          /\ \A i \in 1 .. e - m + 1 : SubSeq(v, m, e)[i] = v[m + i - 1]
      BY <3>1, SubSeqProperties
    <3>4. e - m + 1 = len /\ (IF m <= e THEN e - m + 1 ELSE 0) = len
          /\ \A i \in 1 .. len : m + i - 1 = o + i
      BY <1>13, <3>2
    <3> QED
      BY <3>2, <3>3, <3>4
  <2>3. \A i \in 1 .. len : data[i] = v[o + i]
    BY <1>6, <1>11, <1>13
  <2> HIDE DEF p, q
  <2>4. p = q
    BY <2>1, <2>2, <2>3, SeqEqual
  <2> QED
    BY <2>4 DEF p, q
<1>15. /\ ReadAnswer(req).op = ReadRsp[req.op]
       /\ ReadAnswer(req).body = SubSeq(data, 1, len)
  <2> DEFINE l == 1 + len
             b == SubSeq(data, 1, len)
             op == ReadRsp[req.op]
  <2>1. ReadAnswer(req) = Pdu(op, l, b)
    BY <1>8
  <2> HIDE DEF l, b, op
  <2>2. ReadAnswer(req) = [op |-> op, len |-> l, body |-> b]
    BY <2>1 DEF Pdu
  <2>3. ReadAnswer(req).op = op /\ ReadAnswer(req).body = b
    BY <2>2
  <2> QED
    BY <2>3, Zenon DEF b, op
<1> QED
  BY <1>14, <1>15 DEF v, a

\* Division with a remainder.
LEMMA Quotient ==
    ASSUME NEW r \in Nat, NEW b \in Nat, b > 0
    PROVE  /\ r \div b \in Nat /\ (r \div b) * b <= r /\ r < (r \div b) * b + b
           /\ \A k \in 0 .. r \div b : k * b \in Nat /\ k * b <= r /\ (k + 1) * b = k * b + b
<1>1. r \div b \in Nat /\ (r \div b) * b <= r /\ r < (r \div b) * b + b
  OBVIOUS
<1>2. ASSUME NEW k \in 0 .. r \div b
      PROVE  k * b \in Nat /\ k * b <= r /\ (k + 1) * b = k * b + b
  <2>1. k \in Nat /\ k \in Int /\ k <= r \div b
    BY <1>1, <1>2
  <2>2. k * b <= r
    BY <2>1, DivBound
  <2>3. k * b \in Nat /\ (k + 1) * b = k * b + b
    BY <2>1
  <2> QED
    BY <2>2, <2>3
<1> QED
  BY <1>1, <1>2

\* A client reads a stored value in pieces, a Read and then a Read Blob at the
\* end of what it has, until a piece is not full: it ends up with the value
\* (handle_read_req, gatt_db_attribute_read), whatever clients wrote before.
THEOREM LongReadHolds == Spec => []LongRead
<1>1. ASSUME State PROVE LongRead
  <2> DEFINE size == mtu.att - 1
             Req(h, k) == [op |-> IF k = 0 THEN "READ" ELSE "READ_BLOB",
                           handle |-> h, offset |-> k * size]
             Piece(h, k) == ReadAnswer(Req(h, k))
  <2>1. size \in Nat /\ size > 0
    BY <1>1 DEF State, DEFAULT_LE_MTU
  <2>2. ASSUME NEW h \in Stores
        PROVE  LET n == Len(At(h).value) \div size + 1
               IN  /\ \A k \in 0 .. n - 1 : Piece(h, k).op \in {"READ_RSP", "READ_BLOB_RSP"}
                   /\ \A k \in 0 .. n - 2 : Len(Piece(h, k).body) = size
                   /\ Len(Piece(h, n - 1).body) < size
                   /\ FlattenSeq([k \in 1 .. n |-> Piece(h, k - 1).body]) = At(h).value
    <3> DEFINE v == At(h).value
               r == Len(v)
               q == r \div size
               n == q + 1
               e == [k \in 0 .. n |-> IF k * size <= r THEN k * size ELSE r]
               s == [k \in 1 .. n |-> Piece(h, k - 1).body]
    <3>1. v \in Seq(Atom) /\ r \in Nat
      <4>1. h \in 1 .. 18 /\ Layout(db)
        BY <1>1 DEF State, Stores
      <4>2. At(h) \in Attributes
        BY <4>1, AtHandle, KindType
      <4>3. v \in Seq(Atom)
        BY <4>2 DEF Attributes
      <4> QED
        BY <4>3, LenProperties
    <3> HIDE DEF size, r
    <3>2. /\ q \in Nat /\ q * size <= r /\ r < q * size + size
          /\ \A k \in 0 .. q : k * size \in Nat /\ k * size <= r /\ (k + 1) * size = k * size + size
      BY <2>1, <3>1, Quotient
    <3> HIDE DEF q
    <3>3. /\ \A k \in 0 .. q : e[k] = k * size /\ e[k] \in Nat /\ e[k] <= r
          /\ e[n] = r /\ n \in Nat /\ n > 0
      <4>1. n \in Nat /\ n > 0 /\ \A k \in 0 .. q : k \in 0 .. n
        BY <3>2
      <4>2. n * size = q * size + size /\ q \in 0 .. q /\ q * size \in Nat /\ n \in 0 .. n
        BY <3>2
      <4>3. ~(n * size <= r)
        BY <2>1, <3>1, <3>2, <4>2
      <4> QED
        BY <3>2, <4>1, <4>2, <4>3
    <3>4. ASSUME NEW k \in 0 .. q
          PROVE  /\ e[k + 1] = IF k * size + size <= r THEN k * size + size ELSE r
                 /\ e[k] <= e[k + 1] /\ e[k + 1] <= r /\ e[k + 1] \in Nat
      <4>1. k + 1 \in 0 .. n /\ k * size \in Nat /\ k * size <= r
            /\ (k + 1) * size = k * size + size
        BY <3>2
      <4>2. e[k + 1] = IF k * size + size <= r THEN k * size + size ELSE r
        BY <4>1
      <4>3. e[k] = k * size
        BY <3>3
      <4> DEFINE x == k * size
      <4> HIDE DEF x, e
      <4>4. e[k + 1] = (IF x + size <= r THEN x + size ELSE r) /\ e[k] = x /\ x \in Nat /\ x <= r
        BY <4>1, <4>2, <4>3 DEF x
      <4>5. e[k] <= e[k + 1] /\ e[k + 1] <= r /\ e[k + 1] \in Nat
        BY <2>1, <3>1, <4>4
      <4> QED
        BY <4>2, <4>5
    <3>5. e \in [0 .. n -> Nat] /\ e[0] = 0
      <4>1. 0 \in 0 .. q /\ 0 * size = 0
        BY <2>1, <3>2
      <4>2. \A k \in 0 .. n : k \in 0 .. q \/ k = n
        BY <3>2
      <4>3. \A k \in 0 .. n : e[k] \in Nat
        BY <3>1, <3>3, <4>2
      <4>4. e = [k \in 0 .. n |-> e[k]]
        OBVIOUS
      <4> HIDE DEF e
      <4> QED
        BY <3>3, <4>1, <4>3, <4>4
    <3> HIDE DEF e
    <3>6. ASSUME NEW k \in 0 .. q
          PROVE  /\ Piece(h, k).op \in {"READ_RSP", "READ_BLOB_RSP"}
                 /\ Piece(h, k).body = SubSeq(v, e[k] + 1, e[k + 1])
      <4> DEFINE req == Req(h, k)
                 o == k * size
                 end == e[k + 1]
      <4>1. req.op \in {"READ", "READ_BLOB"} /\ req.handle = h /\ req.offset = o
        OBVIOUS
      <4>2. o \in Nat /\ o <= Len(At(h).value)
        BY <3>2 DEF r
      <4>3. end = IF o + (mtu.att - 1) <= Len(At(h).value)
                  THEN o + (mtu.att - 1) ELSE Len(At(h).value)
        BY <3>4 DEF r, size
      <4>4. e[k] = o
        BY <3>3
      <4> HIDE DEF req, o, end
      <4>5. /\ ReadAnswer(req).op = ReadRsp[req.op]
            /\ ReadAnswer(req).body = SubSeq(At(h).value, o + 1, end)
        BY <1>1, <4>1, <4>2, <4>3, StoredPiece
      <4>6. ReadRsp[req.op] \in {"READ_RSP", "READ_BLOB_RSP"}
        BY <4>1, RspTable
      <4> QED
        BY <4>4, <4>5, <4>6 DEF req, end
    <3> HIDE DEF Piece
    <3>7. ASSUME NEW k \in 0 .. q
          PROVE  /\ Piece(h, k).body \in Seq(Atom)
                 /\ Len(Piece(h, k).body) = e[k + 1] - e[k]
      <4> DEFINE c == e[k]
                 a == c + 1
                 b == e[k + 1]
      <4>1. c \in Nat /\ c <= b /\ b <= r /\ b \in Nat
        BY <3>3, <3>4
      <4>2. Piece(h, k).body = SubSeq(v, a, b) /\ a = c + 1
        BY <3>6
      <4> HIDE DEF a, b, c
      <4>3. a \in Int /\ b \in Int /\ \A i \in a .. b : v[i] \in Atom
        <5>1. a \in Int /\ b \in Int /\ \A i \in a .. b : i \in 1 .. r
          BY <3>1, <4>1, <4>2
        <5>2. \A i \in 1 .. r : v[i] \in Atom
          BY <3>1, ElementOfSeq DEF r
        <5> QED
          BY <5>1, <5>2
      <4>4. SubSeq(v, a, b) \in Seq(Atom) /\ Len(SubSeq(v, a, b)) = IF a <= b THEN b - a + 1 ELSE 0
        BY <4>3, SubSeqProperties
      <4>5. (IF a <= b THEN b - a + 1 ELSE 0) = b - c
        BY <4>1, <4>2
      <4> QED
        BY <4>2, <4>4, <4>5 DEF b, c
    <3>8. \A k \in 0 .. n - 1 : Piece(h, k).op \in {"READ_RSP", "READ_BLOB_RSP"}
      <4>1. \A k \in 0 .. n - 1 : k \in 0 .. q
        BY <3>2
      <4> QED
        BY <3>6, <4>1
    <3>9. ASSUME NEW k \in 0 .. n - 2 PROVE Len(Piece(h, k).body) = size
      <4>1. k \in 0 .. q /\ k + 1 \in 0 .. q
        BY <3>2
      <4>2. e[k] = k * size /\ e[k + 1] = k * size + size /\ k * size \in Nat
        BY <3>2, <3>3, <4>1
      <4> DEFINE x == k * size
      <4> HIDE DEF x
      <4>3. e[k] = x /\ e[k + 1] = x + size /\ x \in Nat
        BY <4>2 DEF x
      <4> QED
        BY <2>1, <3>7, <4>1, <4>3
    <3>10. Len(Piece(h, n - 1).body) < size
      <4>1. q \in 0 .. q /\ n - 1 = q /\ q + 1 = n
        BY <3>2
      <4>2. Len(Piece(h, q).body) = r - q * size
        BY <3>3, <3>7, <4>1
      <4> DEFINE x == q * size
      <4>3. x \in Nat /\ r < x + size
        BY <3>2, <4>1
      <4> HIDE DEF x
      <4>4. r - x < size
        BY <2>1, <3>1, <4>3
      <4> QED
        BY <4>1, <4>2, <4>4 DEF x
    <3>11. FlattenSeq(s) = v
      <4>1. \A k \in 1 .. n : k - 1 \in 0 .. q /\ (k - 1) + 1 = k
        BY <3>2
      <4>2. s \in Seq(Seq(Atom)) /\ Len(s) = n /\ \A k \in 1 .. n : s[k] = Piece(h, k - 1).body
        BY <3>3, <3>7, <4>1
      <4> HIDE DEF s, n
      <4>3. \A k \in 1 .. n : s[k] = SubSeq(v, e[k - 1] + 1, e[k])
        BY <3>6, <4>1, <4>2
      <4>4. \A k \in 1 .. n : e[k - 1] <= e[k] /\ e[k] <= r
        BY <3>4, <4>1
      <4>5. e[n] = Len(v) /\ n \in Nat /\ n > 0 /\ e \in [0 .. n -> Nat] /\ e[0] = 0
        BY <3>3, <3>5 DEF n, r
      <4>6. \A k \in 1 .. n : e[k - 1] <= e[k] /\ e[k] <= Len(v)
        BY <4>4 DEF r
      <4> HIDE DEF v
      <4>7. Cut(s, v, e, n, Atom)
        BY <3>1, <4>2, <4>3, <4>5, <4>6 DEF Cut
      <4> QED
        BY <4>7, Joined
    <3> QED
      BY <3>8, <3>9, <3>10, <3>11 DEF r, q
  <2> QED
    BY <2>2 DEF LongRead
<1> QED
  BY <1>1, StateHolds, PTL

-----------------------------------------------------------------------------
(* Lists without a gap *)

\* The parts of ListsWithoutGap, of any answer.
Leads(named, W) ==
    /\ named # <<>>
    /\ \A i, j \in DOMAIN named : i < j => named[i] < named[j]
    /\ ToSet(named) = {h \in W : h <= Last(named)}

Named(rsp) == [k \in DOMAIN rsp.body |-> rsp.body[k].handle]

Whole(value, all, n) == value = all \/ (n = 1 /\ IsPrefix(value, all))

WholeOf(req, h) == CASE req.op = "READ_BY_TYPE" -> Value(At(h), 0)
                     [] req.op = "READ_BY_GROUP" -> At(h).value

Listed(req) == \/ req.op \in {"READ_BY_GROUP", "READ_BY_TYPE", "FIND_INFO"}
               \/ req.op = "FIND_BY_TYPE_VALUE" /\ req.type = Db!PRIMARY

Complete(req, rsp) ==
    /\ rsp.op \in Lists =>
          /\ Leads(Named(rsp), Wanted(req))
          /\ req.op \in {"READ_BY_GROUP", "READ_BY_TYPE"} =>
                 \A k \in DOMAIN Named(rsp) :
                     Whole(rsp.body[k].value, WholeOf(req, Named(rsp)[k]), Len(Named(rsp)))
          /\ req.op \in {"READ_BY_GROUP", "FIND_BY_TYPE_VALUE"} =>
                 \A k \in DOMAIN Named(rsp) :
                     rsp.body[k].end = Db!End(Db!GetService(db, Named(rsp)[k]))
    /\ rsp.op = "ERROR" /\ rsp.body[3] = "ATTRIBUTE_NOT_FOUND" => Wanted(req) = {}

\* ListsWithoutGap of the last exchange.
LEMMA ListsIs ==
    ListsWithoutGap <=> (Listed(last.req) => Complete(last.req, last.out[1]))
BY Zenon DEF ListsWithoutGap, Complete, Leads, Named, Whole, WholeOf, Listed

\* What is asked for depends on the database and the flags only.
LEMMA CompleteStays ==
    ASSUME UNCHANGED <<db, flags>>, NEW req, NEW rsp, Complete(req, rsp)
    PROVE  Complete(req, rsp)'
<1>1. \A h : At(h)' = At(h)
  BY DEF At
<1>2. \A a, o : Value(a, o)' = Value(a, o)
  BY DEF Value
<1>3. Wanted(req)' = Wanted(req)
  BY <1>1 DEF Wanted
<1>4. \A h : WholeOf(req, h)' = WholeOf(req, h)
  BY <1>1, <1>2 DEF WholeOf
<1> QED
  BY <1>3, <1>4 DEF Complete

\* c has the handles P in order, but for some behind its last.
Climbs(c, n, P) ==
    /\ \A i \in 1 .. n : c[i] \in P
    /\ \A i, j \in 1 .. n : i < j => c[i] < c[j]
    /\ \A h \in P : (\E i \in 1 .. n : c[i] = h) \/ c[n] < h

\* The first of a list of handles in order.
LEMMA Leading ==
    ASSUME NEW P, P \subseteq 1 .. 18, NEW n \in Nat, NEW count \in 1 .. n, NEW c,
           Climbs(c, n, P), NEW named, named = [k \in 1 .. count |-> c[k]]
    PROVE  Leads(named, P)
<1>0. /\ \A i \in 1 .. n : c[i] \in P
      /\ \A i, j \in 1 .. n : i < j => c[i] < c[j]
      /\ \A h \in P : (\E i \in 1 .. n : c[i] = h) \/ c[n] < h
  BY DEF Climbs
<1> USE <1>0
<1>1. DOMAIN named = 1 .. count /\ Len(named) = count /\ named # <<>>
      /\ \A k \in 1 .. count : named[k] = c[k] /\ k \in 1 .. n
  OBVIOUS
<1>2. \A i, j \in DOMAIN named : i < j => named[i] < named[j]
  BY <1>1
<1>3. Last(named) = c[count] /\ count \in 1 .. n
  BY <1>1 DEF Last
<1>4. \A i \in 1 .. n : c[i] \in Nat
  <2>1. \A x \in P : x \in Nat
    OBVIOUS
  <2> QED
    BY <2>1
<1>5. ASSUME NEW k \in 1 .. count PROVE c[k] \in P /\ c[k] <= c[count]
  <2>1. k \in 1 .. n /\ (k = count \/ k < count)
    OBVIOUS
  <2> QED
    BY <1>3, <1>4, <2>1
<1>6. ASSUME NEW h \in P, h <= c[count] PROVE \E k \in 1 .. count : c[k] = h
  <2>1. h \in Nat /\ n \in 1 .. n /\ c[n] \in Nat /\ c[count] \in Nat
    BY <1>4
  <2>2. c[count] <= c[n]
    <3>1. count = n \/ count < n
      OBVIOUS
    <3> QED
      BY <2>1, <3>1
  <2>3. ~(c[n] < h)
    BY <1>6, <2>1, <2>2
  <2>4. PICK i \in 1 .. n : c[i] = h
    BY <2>3
  <2>5. i <= count
    <3> SUFFICES ASSUME count < i PROVE FALSE
      OBVIOUS
    <3>1. c[count] < c[i]
      OBVIOUS
    <3> QED
      BY <1>6, <2>1, <2>4, <3>1
  <2> QED
    BY <2>4, <2>5
<1>7. ToSet(named) = {h \in P : h <= Last(named)}
  <2>1. \A x : x \in ToSet(named) <=> \E k \in 1 .. count : c[k] = x
    BY <1>1 DEF ToSet
  <2> QED
    BY <1>3, <1>5, <1>6, <2>1
<1> QED
  BY <1>1, <1>2, <1>7 DEF Leads

\* What a list holds of a value.
LEMMA Cutting ==
    ASSUME NEW D, NEW v \in Seq(D), NEW unit \in Nat, unit <= Len(v), NEW n,
           unit = Len(v) \/ n = 1
    PROVE  Whole(SubSeq(v, 1, unit), v, n)
<1>1. CASE unit = Len(v)
  BY <1>1, SubSeqFull DEF Whole
<1>2. CASE n = 1
  <2> DEFINE m == 1
             s == SubSeq(v, m, unit)
  <2>1. m \in Int /\ unit \in Int /\ m = 1 /\ \A i \in m .. unit : v[i] \in D
    BY LenProperties
  <2> HIDE DEF m
  <2>2. Len(s) = IF m <= unit THEN unit - m + 1 ELSE 0
    BY <2>1, SubSeqProperties
  <2>3. Len(s) = unit
    BY <2>1, <2>2
  <2>4. s \in Seq(D)
    BY <2>1, SubSeqProperties
  <2> HIDE DEF s
  <2>5. SubSeq(s, 1, Len(s)) = s
    BY <2>4, SubSeqFull
  <2>6. s = SubSeq(v, 1, unit)
    BY <2>1 DEF s
  <2>7. IsPrefix(s, v)
    BY <2>3, <2>5, <2>6 DEF IsPrefix
  <2> QED
    BY <1>2, <2>6, <2>7 DEF Whole
<1> QED
  BY <1>1, <1>2

\* The attributes that are there, and their types.
LEMMA Present ==
    ASSUME State, NEW h \in 1 .. 18
    PROVE  At(h) # None /\ At(h) = Attr(db, h) /\ At(h) \in Kind(h)
<1>1. At(h) = Attr(db, h) /\ At(h) \in Kind(h)
  BY AtHandle DEF State
<1>2. At(h) \in Attributes
  BY <1>1, KindType
<1> QED
  BY <1>1, <1>2, NoneAssumption

\* An error says that nothing was found only if its code does.
LEMMA ErrorComplete ==
    ASSUME NEW req, NEW h, NEW code, code # "ATTRIBUTE_NOT_FOUND" \/ Wanted(req) = {}
    PROVE  Complete(req, Error(req, h, code))
<1> DEFINE b == <<req.op, h, code>>
           rsp == Error(req, h, code)
<1>1. b[3] = code
  OBVIOUS
<1> HIDE DEF b
<1>2. rsp = [op |-> "ERROR", len |-> 5, body |-> b]
  BY DEF Error, Pdu, ERROR_LEN, b
<1> HIDE DEF rsp
<1>3. rsp.op = "ERROR" /\ rsp.body = b
  BY <1>2
<1>4. "ERROR" \notin Lists
  BY DEF Lists
<1>5. Complete(req, rsp)
  BY <1>1, <1>3, <1>4 DEF Complete
<1> QED
  BY <1>5 DEF rsp

\* What the hits of a search lead with.
LEMMA HitsLead ==
    ASSUME NEW q, NEW P, P \subseteq 1 .. 18, Hits(q, db, P), Len(q) > 0,
           NEW count \in 1 .. Len(q), NEW named, named = [k \in 1 .. count |-> q[k].handle]
    PROVE  Leads(named, P)
<1> DEFINE n == Len(q)
           c == [k \in 1 .. n |-> q[k].handle]
<1>1. n \in Nat /\ count \in 1 .. n
  BY LenProperties DEF Hits
<1>2. \A k \in 1 .. n : c[k] = q[k].handle
  OBVIOUS
<1>3. P \cap (1 .. 18) = P
  OBVIOUS
<1>4. /\ \A i \in 1 .. n : c[i] \in P
      /\ \A i, j \in 1 .. n : i < j => c[i] < c[j]
      /\ \A h \in P : (\E i \in 1 .. n : c[i] = h)
  <2> HIDE DEF c
  <2> QED
    BY <1>2, <1>3 DEF Hits
<1>5. named = [k \in 1 .. count |-> c[k]]
  <2>1. \A k \in 1 .. count : k \in 1 .. n
    BY <1>1
  <2> QED
    BY <2>1
<1> HIDE DEF c, n
<1>6. Climbs(c, n, P)
  BY <1>4 DEF Climbs
<1> QED
  BY <1>1, <1>5, <1>6, Leading

\* No hit, nothing to be found.
LEMMA NoHits ==
    ASSUME NEW P, P \subseteq 1 .. 18, Hits(<<>>, db, P)
    PROVE  P = {}
<1>1. P \cap (1 .. 18) = P /\ Len(<<>>) = 0
  OBVIOUS
<1> QED
  BY <1>1 DEF Hits

\* find_info_cb leaves nothing out.
LEMMA InfoComplete ==
    ASSUME State, NEW req, req.op = "FIND_INFO"
    PROVE  Complete(req, InfoAnswer(req))
<1> DEFINE q == Db!FindInformation(db, req.start, req.end)
           P == {h \in 1 .. 18 : h \in req.start .. req.end}
<1>1. Hits(q, db, P) /\ P \subseteq 1 .. 18
  BY InfoHits DEF State
<1>2. Wanted(req) = P
  BY Present DEF Wanted
<1> HIDE DEF q, P
<1>3. CASE InfoAnswer(req) = InfoList(q) /\ q # <<>>
  <2>1. Len(q) > 0
    BY <1>1, <1>3, EmptySeq, LenProperties DEF Hits
  <2>2. PICK count \in 1 .. Len(q), unit \in Nat : InfoList(q) = InfoPdu(q, unit, count)
    BY <1>1, <2>1, InfoListShape
  <2> DEFINE body == [k \in 1 .. count |-> [handle |-> q[k].handle, uuid |-> q[k].uuid]]
             rsp == InfoPdu(q, unit, count)
             named == [k \in 1 .. count |-> q[k].handle]
  <2>3. rsp.op = "FIND_INFO_RSP" /\ rsp.body = body
    BY DEF InfoPdu, Pdu
  <2>4. Named(rsp) = named
    BY <2>3 DEF Named
  <2>5. Leads(named, P)
    BY <1>1, <2>1, HitsLead
  <2> HIDE DEF rsp, body, named
  <2>6. Complete(req, rsp)
    BY <1>2, <2>3, <2>4, <2>5 DEF Complete
  <2> QED
    BY <1>3, <2>2, <2>6 DEF rsp
<1>4. CASE q = <<>>
  <2>1. Wanted(req) = {}
    BY <1>1, <1>2, <1>4, NoHits
  <2>2. \E h, code : InfoAnswer(req) = Error(req, h, code)
    BY <1>4 DEF InfoAnswer, q
  <2> QED
    BY <2>1, <2>2, ErrorComplete
<1>5. CASE InfoAnswer(req) = Error(req, Starts(req), "INVALID_HANDLE")
  BY <1>5, ErrorComplete
<1> QED
  BY <1>3, <1>4, <1>5 DEF InfoAnswer, q

\* Only the value of handle 14 is longer than nineteen bytes.
LEMMA LongValue ==
    ASSUME State, NEW h \in 1 .. 18, Len(Value(At(h), 0)) > 19
    PROVE  h = 14
<1> DEFINE a == At(h)
<1>1. a \in Kind(h)
  BY Present
<1>2. a.read = ReadOf(h) /\ a.value \in Values(h)
  BY <1>1 DEF Kind
<1> HIDE DEF a
<1>3. CASE a.read \in Cccs
  <2>1. a.read # "svc_chngd" /\ a.read # "stored"
    BY <1>3 DEF Cccs, OnByte
  <2> DEFINE b == IF flags[a.read] THEN OnByte[a.read] ELSE 0
  <2>2. Value(a, 0) = <<b, 0>>
    BY <1>3, <2>1 DEF Value, Bytes
  <2> HIDE DEF b
  <2>3. Len(Value(a, 0)) = 2
    BY <2>2
  <2> DEFINE n == Len(Value(a, 0))
  <2> HIDE DEF n
  <2>4. n = 2
    BY <2>3 DEF n
  <2>5. ~(n > 19)
    BY <2>4
  <2> QED
    BY <2>5, Zenon DEF a, n
<1>4. CASE a.read = "svc_chngd"
  <2>1. a.read \notin Cccs
    BY <1>4 DEF Cccs, OnByte
  <2>2. Value(a, 0) = <<>>
    BY <1>4, <2>1 DEF Value
  <2>3. Len(Value(a, 0)) = 0
    BY <2>2
  <2> QED
    BY <2>3 DEF a
<1>5. CASE a.read = "stored"
  <2>1. a.read \notin Cccs /\ a.read # "svc_chngd"
    BY <1>5 DEF Cccs, OnByte
  <2>2. Value(a, 0) = SubSeq(a.value, 0 + 1, Len(a.value))
    BY <1>5, <2>1 DEF Value
  <2>3. 0 + 1 = 1
    OBVIOUS
  <2>4. a.value \in Seq(Atom)
    BY <1>2 DEF Values, Atom
  <2>5. Value(a, 0) = a.value
    BY <2>2, <2>3, <2>4, SubSeqFull
  <2> SUFFICES ASSUME h # 14 PROVE FALSE
    OBVIOUS
  <2>6. Len(a.value) <= 19 /\ Len(a.value) \in Nat
    BY <1>2, <2>4, LenProperties DEF Values
  <2> QED
    BY <2>5, <2>6 DEF a
<1>6. a.read \in {"stored", "svc_chngd"} \cup Cccs
  BY <1>2 DEF ReadOf, Cccs, OnByte
<1> QED
  BY <1>3, <1>4, <1>5, <1>6

\* process_read_by_type leaves nothing out.
LEMMA TypeComplete ==
    ASSUME State, NEW req, req.op = "READ_BY_TYPE", NEW alloc
    PROVE  Complete(req, TypeAnswer(req, alloc))
<1> DEFINE q == Db!ReadByType(db, req.start, req.end, req.type)
           P == {h \in 1 .. 18 : h \in req.start .. req.end /\ Attr(db, h).uuid = req.type}
<1>1. Hits(q, db, P) /\ P \subseteq 1 .. 18
  BY TypeHits DEF State
<1>2. Wanted(req) = P
  BY Present DEF Wanted
<1>3. \A h \in P : h \in 1 .. 18 /\ Attr(db, h).uuid = req.type
  OBVIOUS
<1> HIDE DEF q, P
<1>4. CASE TypeAnswer(req, alloc) = TypeList(req, q) /\ q # <<>>
  <2>1. Len(q) > 0 /\ Len(q) \in Nat
    BY <1>1, <1>4, EmptySeq, LenProperties DEF Hits
  <2>2. CASE \E h : TypeList(req, q) = Error(req, h, "READ_NOT_PERMITTED")
    BY <1>4, <2>2, ErrorComplete
  <2>3. ASSUME NEW count \in 1 .. Len(q), NEW unit \in Nat,
               TypeList(req, q) = TypePdu(q, unit, count), unit <= Len(Value(q[1], 0)),
               unit < Len(Value(q[1], 0)) => unit >= 19,
               \A k \in 2 .. count : Len(Value(q[k], 0)) = unit
        PROVE  Complete(req, TypeAnswer(req, alloc))
    <3> DEFINE body == [k \in 1 .. count |-> [handle |-> q[k].handle,
                                              value |-> SubSeq(Value(q[k], 0), 1, unit)]]
               rsp == TypePdu(q, unit, count)
               named == [k \in 1 .. count |-> q[k].handle]
    <3>1. rsp.op = "READ_BY_TYPE_RSP" /\ rsp.body = body
      BY DEF TypePdu, Pdu
    <3>2. Named(rsp) = named
      BY <3>1 DEF Named
    <3>3. Leads(named, P)
      BY <1>1, <2>1, HitsLead
    <3>4. DOMAIN named = 1 .. count /\ Len(named) = count
          /\ \A k \in 1 .. count : named[k] = q[k].handle
                                   /\ body[k].value = SubSeq(Value(q[k], 0), 1, unit)
      <4>1. count \in Nat
        BY <2>1
      <4> QED
        BY <4>1
    <3> HIDE DEF rsp, body, named
    <3>5. ASSUME NEW k \in 1 .. count
          PROVE  /\ q[k].handle \in P /\ q[k].handle \in 1 .. 18
                 /\ At(q[k].handle) = q[k]
                 /\ Value(q[k], 0) \in Seq(Atom) /\ Len(Value(q[k], 0)) \in Nat
                 /\ k \in 1 .. Len(q)
      <4>1. k \in 1 .. Len(q)
        BY <2>1
      <4>2. q[k].handle \in P /\ q[k].handle \in 1 .. 18 /\ q[k] = Attr(db, q[k].handle)
        BY <1>1, <4>1 DEF Hits
      <4>3. At(q[k].handle) = q[k]
        BY <4>2, Present
      <4> QED
        BY <1>1, <4>1, <4>2, <4>3, HitValue
    <3>6. ASSUME NEW k \in 1 .. count, unit < Len(Value(q[k], 0))
          PROVE  count = 1
      <4>1. k = 1
        <5> SUFFICES ASSUME k # 1 PROVE FALSE
          OBVIOUS
        <5>1. k \in 2 .. count
          BY <2>1
        <5> QED
          BY <2>3, <3>5, <3>6, <5>1
      <4>2. Len(Value(q[1], 0)) > 19
        <5>1. Len(Value(q[1], 0)) \in Nat /\ unit >= 19
          BY <2>3, <3>5, <3>6, <4>1
        <5> QED
          BY <3>6, <4>1, <5>1
      <4>3. 1 \in 1 .. count /\ count \in Nat
        BY <2>1
      <4>4. q[1].handle = 14
        <5>1. Len(Value(At(q[1].handle), 0)) > 19
          BY <3>5, <4>2, <4>3
        <5> QED
          BY <3>5, <4>3, <5>1, LongValue
      <4>5. req.type = Long("i2c_read_data")
        <5>1. Attr(db, 14).uuid = req.type /\ 14 \in 1 .. 18
          BY <1>3, <3>5, <4>3, <4>4
        <5>2. Attr(db, 14) \in Kind(14)
          BY <5>1, Present
        <5>3. UuidsOf(14) = {Long("i2c_read_data")}
          BY DEF UuidsOf
        <5> QED
          BY <5>1, <5>2, <5>3 DEF Kind
      <4>6. \A h \in P : h = 14
        <5> SUFFICES ASSUME NEW h \in P, h # 14 PROVE FALSE
          OBVIOUS
        <5>1. h \in 1 .. 18 /\ Attr(db, h).uuid = req.type
          BY <1>3
        <5>2. Attr(db, h) \in Kind(h)
          BY <5>1, Present
        <5>3. Attr(db, h).uuid \in UuidsOf(h)
          BY <5>2 DEF Kind
        <5>4. Long("i2c_read_data") # Db!PRIMARY
          BY DEF Long, Db!PRIMARY
        <5>5. Long("i2c_read_data") \notin UuidsOf(h)
          BY <5>1, <5>4 DEF UuidsOf, Plain
        <5> QED
          BY <4>5, <5>1, <5>3, <5>5
      <4> SUFFICES ASSUME count # 1 PROVE FALSE
        OBVIOUS
      <4>7. 2 \in 1 .. count
        BY <4>3
      <4>8. 1 \in 1 .. Len(q) /\ 2 \in 1 .. Len(q) /\ 1 < 2
        BY <2>1, <4>7
      <4>9. q[1].handle < q[2].handle
        BY <1>1, <4>8 DEF Hits
      <4>10. q[2].handle = 14
        BY <3>5, <4>6, <4>7
      <4> QED
        BY <4>4, <4>9, <4>10
    <3>7. ASSUME NEW k \in 1 .. count
          PROVE  Whole(SubSeq(Value(q[k], 0), 1, unit), Value(q[k], 0), count)
      <4>1. unit <= Len(Value(q[k], 0))
        <5>1. k = 1 \/ k \in 2 .. count
          BY <2>1
        <5> QED
          BY <2>3, <3>5, <5>1
      <4>2. unit = Len(Value(q[k], 0)) \/ count = 1
        BY <3>5, <3>6, <4>1
      <4> QED
        BY <3>5, <4>1, <4>2, Cutting
    <3>8. \A k \in DOMAIN Named(rsp) :
              Whole(rsp.body[k].value, WholeOf(req, Named(rsp)[k]), Len(Named(rsp)))
      <4> SUFFICES ASSUME NEW k \in 1 .. count
                   PROVE  Whole(body[k].value, WholeOf(req, named[k]), count)
        BY <3>1, <3>2, <3>4
      <4>1. WholeOf(req, named[k]) = Value(q[k], 0)
        BY <3>4, <3>5 DEF WholeOf
      <4>2. body[k].value = SubSeq(Value(q[k], 0), 1, unit)
        BY <3>4
      <4>3. Whole(SubSeq(Value(q[k], 0), 1, unit), Value(q[k], 0), count)
        BY <3>7
      <4> QED
        BY <4>1, <4>2, <4>3, Zenon
    <3>9. Complete(req, rsp)
      BY <1>2, <3>1, <3>2, <3>3, <3>8 DEF Complete
    <3> QED
      BY <1>4, <2>3, <3>9 DEF rsp
  <2> QED
    BY <1>1, <2>1, <2>2, <2>3, TypeListShape
<1>5. CASE q = <<>>
  <2>1. Wanted(req) = {}
    BY <1>1, <1>2, <1>5, NoHits
  <2>2. \E h, code : TypeAnswer(req, alloc) = Error(req, h, code)
    BY <1>5 DEF TypeAnswer, q
  <2> QED
    BY <2>1, <2>2, ErrorComplete
<1>6. CASE \E h, code : /\ TypeAnswer(req, alloc) = Error(req, h, code)
                        /\ code # "ATTRIBUTE_NOT_FOUND"
  BY <1>6, ErrorComplete
<1> QED
  BY <1>4, <1>5, <1>6 DEF TypeAnswer, q

\* The first attribute of a service declares it.
LEMMA Declares ==
    ASSUME State, NEW j \in 1 .. 4
    PROVE  /\ First(j) \in 1 .. 18 /\ ServiceOf(First(j)) = j
           /\ Attr(db, First(j)) = db.services[j].attributes[1]
           /\ Attr(db, First(j)).value \in Seq(Atom)
           /\ Db!Start(db.services[j]) = First(j)
           /\ Db!GetService(db, First(j)) = db.services[j]
<1>1. Layout(db) /\ 1 \in 1 .. Size(j) /\ First(j) = First(j) + 1 - 1
  BY DEF State, First, Size
<1> DEFINE one == 1
           h == First(j)
<1>2. one \in 1 .. Size(j) /\ h = First(j) + one - 1
  BY <1>1
<1> HIDE DEF one, h
<1>3. h \in 1 .. 18 /\ Attr(db, h) = db.services[j].attributes[one] /\ ServiceOf(h) = j
  BY <1>1, <1>2, AttrPlaces
<1>4. Attr(db, h) \in Attributes
  BY <1>1, <1>3, AttrKind
<1>5. Attr(db, h).value \in Seq(Atom)
  BY <1>4 DEF Attributes
<1>6. Db!Start(db.services[j]) = First(j)
  BY <1>1, LayoutServices
<1>7. Db!GetService(db, h) = db.services[j]
  BY <1>1, <1>3, ServiceFound
<1> QED
  BY <1>3, <1>5, <1>6, <1>7 DEF one, h

\* The handles that are declared PRIMARY or SECONDARY begin a service.
LEMMA DeclaredFirst ==
    ASSUME State, NEW h \in 1 .. 18, Attr(db, h).uuid \in {Db!PRIMARY, Db!SECONDARY}
    PROVE  First(ServiceOf(h)) = h /\ ServiceOf(h) \in 1 .. 4
<1>1. Attr(db, h) \in Kind(h)
  BY Present
<1>2. Attr(db, h).uuid \in UuidsOf(h)
  BY <1>1 DEF Kind
<1>3. Long("i2c_read_data") \notin {Db!PRIMARY, Db!SECONDARY}
  BY DEF Long, Db!PRIMARY, Db!SECONDARY
<1>4. h \in {1, 8, 12, 16}
  BY <1>2, <1>3 DEF UuidsOf, Plain
<1> QED
  BY <1>4 DEF First, ServiceOf

\* read_by_grp_type_cb leaves nothing out.
LEMMA GroupComplete ==
    ASSUME State, NEW req, req.op = "READ_BY_GROUP"
    PROVE  Complete(req, GroupAnswer(req))
<1> DEFINE q == Db!ReadByGroupType(db, req.start, req.end, req.type)
           P == Groups(db, req.start, req.end, req.type)
           W == {h \in 1 .. 18 : h \in req.start .. req.end /\ Attr(db, h).uuid = req.type}
<1>1. P \subseteq 1 .. 4 /\ \A k \in P : First(k) \in W
  BY Declares DEF Groups
<1>2. Wanted(req) = W /\ W \subseteq 1 .. 18
  BY Present DEF Wanted
<1>3. PICK m : GroupsFound(q, db, P, m)
  BY GroupHits DEF State
<1>4. ASSUME req.type \in {Db!PRIMARY, Db!SECONDARY}, NEW h \in W
      PROVE  ServiceOf(h) \in P /\ First(ServiceOf(h)) = h
  BY <1>4, DeclaredFirst DEF Groups
<1> HIDE DEF q, P, W
<1>5. CASE GroupAnswer(req) = GroupList(q) /\ q # <<>> /\ req.type \in {Db!PRIMARY, Db!SECONDARY}
  <2> DEFINE N == Len(q)
  <2>1. N > 0 /\ N \in Nat
    BY <1>3, <1>5, EmptySeq, LenProperties DEF GroupsFound
  <2>2. PICK count \in 1 .. Len(q), unit \in Nat :
            /\ GroupList(q) = GroupPdu(q, unit, count)
            /\ unit <= Len(q[1].attributes[1].value)
            /\ unit = Len(q[1].attributes[1].value) \/ count = 1
    BY <1>1, <1>3, <2>1, GroupListShape
  <2> DEFINE c == [k \in 1 .. N |-> First(m[k])]
             body == [k \in 1 .. count |-> [handle |-> Db!Start(q[k]), end |-> Db!End(q[k]),
                                  value |-> SubSeq(q[k].attributes[1].value, 1, unit)]]
             rsp == GroupPdu(q, unit, count)
             named == [k \in 1 .. count |-> c[k]]
  <2>3. ASSUME NEW k \in 1 .. N
        PROVE  /\ m[k] \in P /\ m[k] \in 1 .. 4 /\ q[k] = db.services[m[k]]
               /\ c[k] = First(m[k]) /\ Db!Start(q[k]) = c[k] /\ c[k] \in W
               /\ Db!GetService(db, c[k]) = q[k]
               /\ At(c[k]).value = q[k].attributes[1].value
               /\ At(c[k]).value \in Seq(Atom)
               /\ Len(q[k].attributes[1].value) = Len(q[1].attributes[1].value)
    <3>1. m[k] \in P /\ q[k] = db.services[m[k]]
          /\ Len(q[k].attributes[1].value) = Len(q[1].attributes[1].value)
      BY <1>3 DEF GroupsFound
    <3>2. m[k] \in 1 .. 4 /\ c[k] = First(m[k]) /\ c[k] \in W
      BY <1>1, <3>1
    <3> DEFINE j == m[k]
               h == First(j)
    <3>3. j \in 1 .. 4
      BY <3>2
    <3> HIDE DEF j
    <3>4. /\ h \in 1 .. 18 /\ Attr(db, h) = db.services[j].attributes[1]
          /\ Attr(db, h).value \in Seq(Atom) /\ Db!Start(db.services[j]) = h
          /\ Db!GetService(db, h) = db.services[j]
      BY <3>3, Declares
    <3>5. At(h) = Attr(db, h)
      BY <3>4, Present
    <3> HIDE DEF h, c
    <3>6. c[k] = h /\ q[k] = db.services[j]
      BY <3>1, <3>2 DEF h, j
    <3> QED
      BY <3>1, <3>2, <3>4, <3>5, <3>6
  <2> HIDE DEF c
  <2>4. Climbs(c, N, W)
    <3>1. \A i, j \in 1 .. N : i < j => c[i] < c[j]
      <4> SUFFICES ASSUME NEW i \in 1 .. N, NEW j \in 1 .. N, i < j PROVE c[i] < c[j]
        OBVIOUS
      <4>1. m[i] < m[j]
        BY <1>3 DEF GroupsFound
      <4> QED
        BY <2>3, <4>1 DEF First
    <3>2. ASSUME NEW h \in W PROVE (\E i \in 1 .. N : c[i] = h) \/ c[N] < h
      <4>1. ServiceOf(h) \in P /\ First(ServiceOf(h)) = h
        BY <1>4, <1>5
      <4> DEFINE k == ServiceOf(h)
      <4> HIDE DEF k
      <4>2. k \in P /\ First(k) = h /\ k \in 1 .. 4
        BY <1>1, <4>1 DEF k
      <4>3. (\E i \in 1 .. N : m[i] = k) \/ m[N] < k
        BY <1>3, <4>2 DEF GroupsFound
      <4>4. N \in 1 .. N
        BY <2>1
      <4>5. CASE m[N] < k
        <5>1. c[N] = First(m[N]) /\ m[N] \in 1 .. 4
          BY <2>3, <4>4
        <5>2. First(m[N]) < First(k)
          BY <4>2, <4>5, <5>1 DEF First
        <5> QED
          BY <4>2, <5>1, <5>2
      <4>6. CASE \E i \in 1 .. N : m[i] = k
        BY <2>3, <4>2, <4>6
      <4> QED
        BY <4>3, <4>5, <4>6
    <3> QED
      BY <2>3, <3>1, <3>2 DEF Climbs
  <2>5. count \in Nat /\ \A k \in 1 .. count : k \in 1 .. N
    BY <2>1
  <2>6. Leads(named, W)
    <3>1. count \in 1 .. N
      OBVIOUS
    <3> HIDE DEF N
    <3> QED
      BY <1>2, <2>1, <2>4, <3>1, Leading
  <2>7. rsp.op = "READ_BY_GROUP_RSP" /\ rsp.body = body
    BY DEF GroupPdu, Pdu
  <2>8. /\ DOMAIN body = 1 .. count /\ DOMAIN named = 1 .. count /\ Len(named) = count
        /\ \A k \in 1 .. count :
               /\ named[k] = c[k] /\ body[k].handle = Db!Start(q[k])
               /\ body[k].end = Db!End(q[k])
               /\ body[k].value = SubSeq(q[k].attributes[1].value, 1, unit)
    BY <2>5
  <2>9. Named(rsp) = named
    <3>1. Named(rsp) = [k \in 1 .. count |-> body[k].handle]
      BY <2>7, <2>8 DEF Named
    <3>2. \A k \in 1 .. count : body[k].handle = c[k]
      BY <2>3, <2>5, <2>8
    <3> HIDE DEF body
    <3> QED
      BY <3>1, <3>2
  <2> HIDE DEF rsp, body, named, N
  <2>10. ASSUME NEW k \in 1 .. count
         PROVE  /\ Whole(body[k].value, WholeOf(req, named[k]), count)
                /\ body[k].end = Db!End(Db!GetService(db, named[k]))
    <3> DEFINE v == q[k].attributes[1].value
    <3>1. /\ v \in Seq(Atom) /\ Len(v) = Len(q[1].attributes[1].value)
          /\ At(named[k]).value = v /\ Db!GetService(db, named[k]) = q[k]
      BY <2>3, <2>5, <2>8
    <3>2. body[k].value = SubSeq(v, 1, unit) /\ body[k].end = Db!End(q[k])
      BY <2>8
    <3>3. WholeOf(req, named[k]) = v
      <4>1. req.op # "READ_BY_TYPE"
        OBVIOUS
      <4> QED
        BY <3>1, <4>1 DEF WholeOf
    <3> HIDE DEF v
    <3>4. Whole(SubSeq(v, 1, unit), v, count)
      BY <2>2, <3>1, Cutting
    <3> QED
      BY <3>1, <3>2, <3>3, <3>4, Zenon
  <2>11. Complete(req, rsp)
    BY <1>2, <2>6, <2>7, <2>8, <2>9, <2>10 DEF Complete
  <2> QED
    BY <1>5, <2>2, <2>11 DEF rsp
<1>6. CASE q = <<>> /\ req.type \in {Db!PRIMARY, Db!SECONDARY}
  <2>1. Len(q) = 0
    BY <1>6
  <2>2. P = {}
    BY <1>3, <2>1 DEF GroupsFound
  <2>3. Wanted(req) = {}
    BY <1>2, <1>4, <1>6, <2>2
  <2>4. \E h, code : GroupAnswer(req) = Error(req, h, code)
    BY <1>6 DEF GroupAnswer, q
  <2> QED
    BY <2>3, <2>4, ErrorComplete
<1>7. CASE \E h, code : GroupAnswer(req) = Error(req, h, code) /\ code # "ATTRIBUTE_NOT_FOUND"
  BY <1>7, ErrorComplete
<1> QED
  BY <1>5, <1>6, <1>7 DEF GroupAnswer, q

\* find_by_type_val_cb leaves no service out.
LEMMA FoundComplete ==
    ASSUME State, NEW req, req.op = "FIND_BY_TYPE_VALUE", req.type = Db!PRIMARY
    PROVE  Complete(req, FoundAnswer(req))
<1> DEFINE q == Db!FindByTypeValue(db, req.start, req.end, req.type, req.value)
           P == {h \in 1 .. 18 : /\ h \in req.start .. req.end /\ Attr(db, h).uuid = req.type
                                 /\ Len(Attr(db, h).value) = Len(req.value)
                                 /\ Attr(db, h).value = req.value}
           count == Min({Len(q), (mtu.att - 1) \div 4})
<1>1. Hits(q, db, P) /\ P \subseteq 1 .. 18
  BY ValueHits, SMTT(30) DEF State
<1>2. Wanted(req) = P
  BY Present DEF Wanted
<1>3. ASSUME NEW h \in P
      PROVE  Db!Start(Db!GetService(db, h)) = h
  <2>1. h \in 1 .. 18 /\ Attr(db, h).uuid \in {Db!PRIMARY, Db!SECONDARY}
    OBVIOUS
  <2>2. First(ServiceOf(h)) = h /\ ServiceOf(h) \in 1 .. 4
    BY <2>1, DeclaredFirst
  <2> DEFINE j == ServiceOf(h)
  <2> HIDE DEF j
  <2>3. First(j) = h /\ j \in 1 .. 4
    BY <2>2 DEF j
  <2>4. Db!Start(db.services[j]) = First(j) /\ Db!GetService(db, First(j)) = db.services[j]
    BY <2>3, Declares
  <2> QED
    BY <2>3, <2>4
<1> HIDE DEF q, P, count
<1>4. CASE FoundAnswer(req) = FoundPdu(q, count) /\ q # <<>>
  <2>1. Len(q) > 0 /\ Len(q) \in Nat
    BY <1>1, <1>4, EmptySeq, LenProperties DEF Hits
  <2>2. count \in 1 .. Len(q)
    BY <1>1, <2>1, FoundShape DEF count
  <2> DEFINE body == [k \in 1 .. count |->
                          [handle |-> Db!Start(Db!GetService(db, q[k].handle)),
                           end |-> Db!End(Db!GetService(db, q[k].handle))]]
             rsp == FoundPdu(q, count)
             named == [k \in 1 .. count |-> q[k].handle]
  <2>3. rsp.op = "FIND_BY_TYPE_VALUE_RSP" /\ rsp.body = body
    BY DEF FoundPdu, Pdu
  <2>4. Leads(named, P)
    BY <1>1, <2>1, <2>2, HitsLead
  <2>5. \A k \in 1 .. count : q[k].handle \in P
    <3>1. \A k \in 1 .. count : k \in 1 .. Len(q)
      BY <2>1, <2>2
    <3> QED
      BY <1>1, <3>1 DEF Hits
  <2>6. /\ DOMAIN body = 1 .. count /\ DOMAIN named = 1 .. count
        /\ \A k \in 1 .. count :
               /\ named[k] = q[k].handle
               /\ body[k].handle = Db!Start(Db!GetService(db, q[k].handle))
               /\ body[k].end = Db!End(Db!GetService(db, q[k].handle))
    OBVIOUS
  <2>7. Named(rsp) = named
    <3>1. Named(rsp) = [k \in 1 .. count |-> body[k].handle]
      BY <2>3, <2>6 DEF Named
    <3>2. \A k \in 1 .. count : body[k].handle = q[k].handle
      BY <1>3, <2>5, <2>6
    <3> HIDE DEF body
    <3> QED
      BY <3>1, <3>2
  <2> HIDE DEF rsp, body, named
  <2>8. Complete(req, rsp)
    BY <1>2, <2>3, <2>4, <2>6, <2>7 DEF Complete
  <2> QED
    BY <1>4, <2>8 DEF rsp
<1>5. CASE q = <<>>
  <2>1. Wanted(req) = {}
    BY <1>1, <1>2, <1>5, NoHits
  <2>2. \E h, code : FoundAnswer(req) = Error(req, h, code)
    BY <1>5 DEF FoundAnswer, q
  <2> QED
    BY <2>1, <2>2, ErrorComplete
<1>6. CASE FoundAnswer(req) = Error(req, req.start, "INVALID_HANDLE")
  BY <1>6, ErrorComplete
<1> QED
  BY <1>4, <1>5, <1>6 DEF FoundAnswer, FoundPdu, q, count

\* A list leaves nothing out and "not found" means that there is nothing
\* (gatt-server.c, gatt-db.c): a client that asks again behind the last handle
\* of each answer finds everything, whatever it and others wrote.
THEOREM ListsHold == Spec => []ListsWithoutGap
<1>1. Init => ListsWithoutGap
  <2> SUFFICES ASSUME Init PROVE ListsWithoutGap
    OBVIOUS
  <2>1. last.req.op = "none"
    BY DEF Init, NoRequest
  <2> QED
    BY <2>1, ListsIs DEF Listed
<1>2. ASSUME State, ListsWithoutGap, [Next]_vars PROVE ListsWithoutGap'
  <2>1. ASSUME NEW r, NEW p, last'.req = r, last'.out[1] = p, Listed(r) => Complete(r, p)'
        PROVE  ListsWithoutGap'
    <3>1. (ListsWithoutGap <=> (Listed(last.req) => Complete(last.req, last.out[1])))'
      BY ListsIs, PTL
    <3> QED
      BY <2>1, <3>1
  <2>2. CASE UNCHANGED vars
    <3>1. UNCHANGED <<db, flags, last>>
      BY <2>2 DEF vars
    <3>2. PICK r, p : r = last.req /\ p = last.out[1]
      OBVIOUS
    <3>3. Listed(r) => Complete(r, p)
      BY <1>2, <3>2, ListsIs
    <3> QED
      BY <2>1, <3>1, <3>2, <3>3, CompleteStays
  <2>3. ASSUME NEW req \in Requests, Look(req) PROVE ListsWithoutGap'
    <3>1. UNCHANGED <<db, flags>> /\ \E out : Sent(req, out)
      BY <2>3, Zenon DEF Look
    <3>2. ~Listed(req) \/ \E p : Sent(req, <<p>>) /\ Complete(req, p)
      <4>1. CASE req.op = "READ_BY_GROUP" /\ Sent(req, <<GroupAnswer(req)>>)
        BY <1>2, <4>1, GroupComplete
      <4>2. CASE req.op = "READ_BY_TYPE" /\ \E alloc \in Alloc : Sent(req, <<TypeAnswer(req, alloc)>>)
        BY <1>2, <4>2, TypeComplete
      <4>3. CASE req.op = "FIND_INFO" /\ Sent(req, <<InfoAnswer(req)>>)
        BY <1>2, <4>3, InfoComplete
      <4>4. CASE req.op = "FIND_BY_TYPE_VALUE" /\ Sent(req, <<FoundAnswer(req)>>)
        BY <1>2, <4>4, FoundComplete DEF Listed
      <4>5. CASE req.op \in {"READ", "READ_BLOB", "READ_MULT"}
        BY <4>5 DEF Listed
      <4> QED
        BY <2>3, <4>1, <4>2, <4>3, <4>4, <4>5, Zenon DEF Look
    <3>3. CASE ~Listed(req)
      <4>1. last'.req = req
        BY <3>1 DEF Sent
      <4> QED
        BY <2>1, <3>3, <4>1
    <3>4. ASSUME NEW p, Sent(req, <<p>>), Complete(req, p) PROVE ListsWithoutGap'
      <4>1. last'.req = req /\ last'.out[1] = p
        BY <3>4 DEF Sent
      <4>2. Complete(req, p)'
        BY <3>1, <3>4, CompleteStays
      <4> QED
        BY <2>1, <4>1, <4>2
    <3> QED
      BY <3>2, <3>3, <3>4
  <2>4. ASSUME NEW req \in Requests,
               ExchangeMtu(req) \/ WriteRequest(req) \/ Prepare(req) \/ Execute(req) \/ Malformed(req)
        PROVE  ListsWithoutGap'
    <3>1. last'.req = req
      <4>1. Crashed(req) \/ \E out : Sent(req, out)
        BY <2>4, Zenon DEF ExchangeMtu, WriteRequest, Prepare, Execute, Malformed, Refused, Made
      <4> QED
        BY <4>1 DEF Sent, Crashed
    <3>2. ~Listed(req)
      <4>1. req.op \in {"MTU", "WRITE", "WRITE_CMD", "PREP_WRITE", "EXEC_WRITE", "MALFORMED"}
        BY <2>4, Zenon DEF ExchangeMtu, WriteRequest, Prepare, Execute, Malformed
      <4> QED
        BY <4>1 DEF Listed
    <3> QED
      BY <2>1, <3>1, <3>2
  <2> QED
    BY <1>2, <2>2, <2>3, <2>4, Zenon DEF Next
<1> QED
  BY <1>1, <1>2, StateHolds, PTL DEF Spec

-----------------------------------------------------------------------------
(* Prepared writes *)

\* Overwritten, by length and element.
OverLen(v, o, d) == IF d = <<>> THEN Len(v)
                    ELSE IF Len(v) <= o + Len(d) THEN o + Len(d) ELSE Len(v)
OverAt(v, o, d, i) == IF i > o /\ i <= o + Len(d) THEN d[i - o]
                      ELSE IF i <= Len(v) THEN v[i] ELSE IF v = <<>> THEN 0 ELSE UnknownByte

\* Overwritten is what these say.
LEMMA OverIs ==
    ASSUME NEW v \in Seq(Byte), NEW o \in Nat, NEW d \in Seq(0 .. 255)
    PROVE  /\ Overwritten(v, o, d) \in Seq(Byte)
           /\ Len(Overwritten(v, o, d)) = OverLen(v, o, d) /\ OverLen(v, o, d) \in Nat
           /\ \A i \in 1 .. OverLen(v, o, d) : Overwritten(v, o, d)[i] = OverAt(v, o, d, i)
<1>1. Len(v) \in Nat /\ Len(d) \in Nat
  BY LenProperties
<1> DEFINE l == Len(v)
           m == o + Len(d)
           n == IF d = <<>> THEN l ELSE Max({l, m})
<1>2. l \in Nat /\ m \in Nat
  BY <1>1
<1>3. n = OverLen(v, o, d) /\ n \in Nat
  <2>1. Max({l, m}) = IF l <= m THEN m ELSE l
    <3>1. l \in Int /\ m \in Int
      BY <1>2
    <3> HIDE DEF l, m
    <3> QED
      BY <3>1, Extremes, Zenon
  <2> QED
    BY <1>1, <2>1 DEF OverLen
<1>4. ASSUME NEW i \in 1 .. n PROVE OverAt(v, o, d, i) \in Byte
  <2>1. ASSUME i > o, i <= o + Len(d) PROVE d[i - o] \in Byte
    <3>1. i - o \in 1 .. Len(d)
      BY <1>1, <1>3, <2>1
    <3>2. d[i - o] \in 0 .. 255
      BY <3>1, ElementOfSeq
    <3>3. 0 .. 255 \subseteq Byte
      BY DEF Byte
    <3> QED
      BY <3>2, <3>3
  <2>2. i <= Len(v) => v[i] \in Byte
    BY <1>1, <1>3
  <2>3. 0 \in Byte /\ UnknownByte \in Byte
    BY DEF Byte
  <2> QED
    BY <2>1, <2>2, <2>3 DEF OverAt
<1>5. Overwritten(v, o, d) = [i \in 1 .. n |-> OverAt(v, o, d, i)]
  BY DEF Overwritten, OverAt
<1> HIDE DEF n
<1> QED
  BY <1>3, <1>4, <1>5

\* Writing nothing changes nothing.
LEMMA OverNothing ==
    ASSUME NEW v \in Seq(Byte), NEW o \in Nat
    PROVE  Overwritten(v, o, <<>>) = v
<1> DEFINE d == <<>>
           w == Overwritten(v, o, d)
<1>1. d \in Seq(0 .. 255) /\ Len(d) = 0 /\ d = <<>> /\ Len(v) \in Nat
  BY LenProperties
<1> HIDE DEF d
<1>2. w \in Seq(Byte) /\ Len(w) = OverLen(v, o, d)
      /\ \A i \in 1 .. OverLen(v, o, d) : w[i] = OverAt(v, o, d, i)
  BY <1>1, OverIs
<1> HIDE DEF w
<1>3. OverLen(v, o, d) = Len(v)
  BY <1>1 DEF OverLen
<1>4. \A i \in 1 .. Len(v) : w[i] = v[i]
  BY <1>1, <1>2, <1>3 DEF OverAt
<1>5. w = v
  BY <1>2, <1>3, <1>4, SeqEqual
<1> QED
  BY <1>1, <1>5 DEF w

\* Two writes, the second where the first ends, are one.
LEMMA OverTwice ==
    ASSUME NEW v \in Seq(Byte), NEW o \in Nat,
           NEW d1 \in Seq(0 .. 255), NEW d2 \in Seq(0 .. 255)
    PROVE  Overwritten(Overwritten(v, o, d1), o + Len(d1), d2) = Overwritten(v, o, d1 \o d2)
<1> DEFINE w == Overwritten(v, o, d1)
           b == o + Len(d1)
           d == d1 \o d2
           x == Overwritten(w, b, d2)
           y == Overwritten(v, o, d)
<1>1. /\ Len(v) \in Nat /\ Len(d1) \in Nat /\ Len(d2) \in Nat /\ b \in Nat
      /\ d \in Seq(0 .. 255) /\ Len(d) = Len(d1) + Len(d2)
      /\ \A i \in 1 .. Len(d1) + Len(d2) :
             d[i] = IF i <= Len(d1) THEN d1[i] ELSE d2[i - Len(d1)]
  BY LenProperties, ConcatProperties
<1>2. /\ w \in Seq(Byte) /\ Len(w) = OverLen(v, o, d1) /\ Len(w) \in Nat
      /\ \A i \in 1 .. OverLen(v, o, d1) : w[i] = OverAt(v, o, d1, i)
  BY OverIs
<1>3. CASE d1 = <<>>
  <2>1. Len(d1) = 0 /\ d = d2
    BY <1>3, ConcatEmptySeq
  <2>2. w = v
    BY <1>3, OverNothing
  <2> HIDE DEF w, d
  <2> QED
    BY <1>1, <2>1, <2>2 DEF d, w
<1>4. CASE d2 = <<>>
  <2>1. d = d1
    BY <1>4, ConcatEmptySeq
  <2> HIDE DEF w, b
  <2>2. x = w
    BY <1>1, <1>2, <1>4, OverNothing
  <2> QED
    BY <2>1, <2>2 DEF w, b
<1>5. CASE d1 # <<>> /\ d2 # <<>>
  <2>1. Len(d1) > 0 /\ Len(d2) > 0
    BY <1>1, <1>5, EmptySeq
  <2> HIDE DEF w, d, b
  <2>2. /\ x \in Seq(Byte) /\ Len(x) = OverLen(w, b, d2)
        /\ \A i \in 1 .. OverLen(w, b, d2) : x[i] = OverAt(w, b, d2, i)
    BY <1>1, <1>2, OverIs, ZenonT(30)
  <2>3. /\ y \in Seq(Byte) /\ Len(y) = OverLen(v, o, d)
        /\ \A i \in 1 .. OverLen(v, o, d) : y[i] = OverAt(v, o, d, i)
    BY <1>1, OverIs, ZenonT(30)
  <2> HIDE DEF x, y
  <2> DEFINE e == b + Len(d2)
             n == IF Len(v) <= e THEN e ELSE Len(v)
  <2>4. b = o + Len(d1) /\ e \in Nat /\ e = o + Len(d) /\ b < e /\ o < b
    BY <1>1, <2>1 DEF b
  <2>5. d # <<>> /\ Len(w) = IF Len(v) <= b THEN b ELSE Len(v)
    <3>1. Len(d) > 0
      BY <1>1, <2>1
    <3>2. d # <<>>
      BY <3>1, EmptySeq
    <3> QED
      BY <1>2, <1>5, <2>4, <3>2 DEF OverLen
  <2>6. w # <<>>
    <3>1. Len(w) > 0
      BY <1>1, <2>4, <2>5
    <3> QED
      BY <3>1, EmptySeq
  <2>7. OverLen(v, o, d) = n
    BY <2>4, <2>5 DEF OverLen
  <2>8. OverLen(w, b, d2) = n
    <3>1. OverLen(w, b, d2) = IF Len(w) <= e THEN e ELSE Len(w)
      BY <1>5 DEF OverLen
    <3> QED
      BY <1>1, <2>4, <2>5, <3>1
  <2>9. ASSUME NEW i \in 1 .. n PROVE x[i] = y[i]
    <3>1. i \in Nat /\ i > 0 /\ x[i] = OverAt(w, b, d2, i) /\ y[i] = OverAt(v, o, d, i)
      <4>1. n \in Nat
        BY <1>1, <2>4
      <4>2. i \in 1 .. OverLen(w, b, d2) /\ i \in 1 .. OverLen(v, o, d)
        BY <2>7, <2>8, Zenon
      <4> HIDE DEF n
      <4>3. x[i] = OverAt(w, b, d2, i) /\ y[i] = OverAt(v, o, d, i)
        BY <2>2, <2>3, <4>2, Zenon
      <4>4. i \in Nat /\ i > 0
        BY <4>1
      <4> QED
        BY <4>3, <4>4
    <3>2. ASSUME i <= Len(w) PROVE w[i] = OverAt(v, o, d1, i)
      <4>1. i \in 1 .. OverLen(v, o, d1)
        BY <1>2, <3>1, <3>2
      <4> QED
        BY <1>2, <4>1
    <3>3. CASE i > e
      <4>1. i <= Len(v) /\ i <= Len(w) /\ ~(i <= e) /\ ~(i <= b)
        BY <1>1, <2>4, <2>5, <3>1, <3>3
      <4>2. x[i] = w[i] /\ y[i] = v[i]
        BY <2>4, <3>1, <4>1 DEF OverAt
      <4>3. w[i] = v[i]
        BY <2>4, <3>2, <4>1 DEF OverAt
      <4> QED
        BY <4>2, <4>3
    <3>4. CASE i > b /\ i <= e
      <4>1. i > o /\ i <= o + Len(d) /\ i - o \in 1 .. Len(d1) + Len(d2)
            /\ ~(i - o <= Len(d1)) /\ (i - o) - Len(d1) = i - b
        BY <1>1, <2>4, <3>1, <3>4
      <4>2. x[i] = d2[i - b] /\ y[i] = d[i - o]
        BY <3>1, <3>4, <4>1 DEF OverAt
      <4>3. d[i - o] = d2[(i - o) - Len(d1)]
        BY <1>1, <4>1
      <4> QED
        BY <4>1, <4>2, <4>3
    <3>5. CASE i > o /\ i <= b
      <4>1. i <= Len(w) /\ ~(i > b) /\ i <= o + Len(d) /\ i <= o + Len(d1)
            /\ i - o \in 1 .. Len(d1) + Len(d2) /\ i - o <= Len(d1)
        BY <1>1, <2>4, <2>5, <3>1, <3>5
      <4>2. x[i] = w[i] /\ w[i] = d1[i - o] /\ y[i] = d[i - o]
        BY <3>1, <3>2, <3>5, <4>1 DEF OverAt
      <4>3. d[i - o] = d1[i - o]
        BY <1>1, <4>1
      <4> QED
        BY <4>2, <4>3
    <3>6. CASE i <= o
      <4>1. i <= Len(w) /\ ~(i > b) /\ ~(i > o)
        BY <1>1, <2>4, <2>5, <3>1, <3>6
      <4>2. x[i] = w[i]
        BY <3>1, <4>1 DEF OverAt
      <4> QED
        BY <3>1, <3>2, <4>1, <4>2 DEF OverAt
    <3> QED
      BY <1>1, <2>4, <3>1, <3>3, <3>4, <3>5, <3>6
  <2>10. x = y
    BY <2>2, <2>3, <2>7, <2>8, <2>9, SeqEqual
  <2> QED
    BY <2>10 DEF x, y, w, b, d
<1> QED
  BY <1>3, <1>4, <1>5

\* What a number with a bound keeps of one below the bound.
LEMMA KeptWhole ==
    ASSUME NEW m \in Nat, NEW x \in Nat, x < m
    PROVE  x % m = x
OBVIOUS

\* A write whose end value_len can count is what it should be.
LEMMA StoredIs ==
    ASSUME NEW old \in Values(14), NEW o \in Nat, NEW d \in Seq(0 .. 255),
           o + Len(d) < LenMod
    PROVE  Stored(old, o, d) = Overwritten(old, o, d)
<1>1. old \in Seq(Byte) /\ Len(old) \in Nat /\ LenMod \in Nat /\ Len(d) \in Nat
  BY BoundsAssumption, LenProperties DEF Values
<1>2. CASE d = <<>>
  BY <1>1, <1>2, OverNothing DEF Stored
<1>3. CASE d # <<>>
  <2> DEFINE end == o + Len(d)
             gap == IF old = <<>> THEN 0 ELSE UnknownByte
             n == IF Grows(old, o, d) THEN end % LenMod ELSE Len(old)
             l == Len(old)
             w == Overwritten(old, o, d)
  <2>1. Len(d) > 0
    BY <1>1, <1>3, EmptySeq
  <2>2. end \in Nat /\ end % LenMod = end
    <3>1. end \in Nat /\ end < LenMod /\ LenMod \in Nat
      BY <1>1
    <3> HIDE DEF end
    <3> QED
      BY <3>1, KeptWhole, Zenon
  <2>3. n = IF l <= end THEN end ELSE l
    <3>1. Grows(old, o, d) <=> o >= l \/ Len(d) > l - o
      BY <1>3 DEF Grows
    <3>2. CASE Grows(old, o, d)
      BY <1>1, <2>1, <2>2, <3>1, <3>2
    <3>3. CASE ~Grows(old, o, d)
      <4>1. end <= l
        BY <1>1, <3>1, <3>3
      <4> QED
        BY <1>1, <3>3, <4>1
    <3> QED
      BY <3>2, <3>3
  <2>4. OverLen(old, o, d) = n
    BY <1>3, <2>3 DEF OverLen
  <2>5. Stored(old, o, d) = [i \in 1 .. n |-> OverAt(old, o, d, i)]
    BY <1>3 DEF Stored, OverAt
  <2>6. /\ w \in Seq(Byte) /\ Len(w) = n /\ n \in Nat
        /\ \A i \in 1 .. n : w[i] = OverAt(old, o, d, i)
    <3>1. /\ w \in Seq(Byte) /\ Len(w) = OverLen(old, o, d) /\ OverLen(old, o, d) \in Nat
          /\ \A i \in 1 .. OverLen(old, o, d) : w[i] = OverAt(old, o, d, i)
      BY <1>1, OverIs, ZenonT(30)
    <3> HIDE DEF n, w
    <3> QED
      BY <2>4, <3>1
  <2>7. w = [i \in 1 .. n |-> w[i]]
    <3>1. DOMAIN w = 1 .. n
      BY <2>6, LenProperties
    <3> HIDE DEF n, w
    <3> QED
      BY <2>6, <3>1, LenProperties
  <2> HIDE DEF w, n
  <2>8. w = [i \in 1 .. n |-> OverAt(old, o, d, i)]
    BY <2>6, <2>7
  <2> QED
    BY <2>5, <2>8 DEF w
<1> QED
  BY <1>2, <1>3

\* The writes that were prepared, and what those before each have led to
Chunk == {c \in Requests : c.op = "PREP_WRITE"}
Steps(f, v, cs, n) ==
    f[0] = v /\ \A k \in 1 .. n : f[k] = Overwritten(f[k - 1], cs[k].offset, cs[k].value)
Applied(f, v, cs) == f \in [0 .. Len(cs) -> Seq(Byte)] /\ Steps(f, v, cs, Len(cs))

\* What Applied says determines the values.
LEMMA AppliedOnce ==
    ASSUME NEW v, NEW cs, NEW n \in Nat, NEW f, NEW g, Steps(f, v, cs, n), Steps(g, v, cs, n)
    PROVE  f[n] = g[n]
<1> DEFINE T == {k \in 0 .. n : f[k] = g[k]}
<1>1. 0 \in T
  BY DEF Steps
<1>2. ASSUME NEW k \in 0 .. n - 1, k \in T PROVE k + 1 \in T
  <2>1. k + 1 \in 1 .. n /\ (k + 1) - 1 = k /\ k + 1 \in 0 .. n
    OBVIOUS
  <2>2. f[k + 1] = Overwritten(f[k], cs[k + 1].offset, cs[k + 1].value)
    BY <2>1 DEF Steps
  <2>3. g[k + 1] = Overwritten(g[k], cs[k + 1].offset, cs[k + 1].value)
    BY <2>1 DEF Steps
  <2> QED
    BY <1>2, <2>1, <2>2, <2>3
<1> HIDE DEF T
<1>3. 0 .. n \subseteq T
  BY <1>1, <1>2, Counting
<1>4. n \in T
  BY <1>3
<1> QED
  BY <1>4 DEF T

\* What a Prepare Write carries.
LEMMA ChunkTypes ==
    ASSUME NEW c \in Chunk
    PROVE  c \in Requests /\ c.op = "PREP_WRITE" /\ c.offset \in Word /\ c.offset \in Nat
           /\ c.value \in Seq(0 .. 255)
<1>1. c \in Requests /\ c.op = "PREP_WRITE"
  BY DEF Chunk
<1>2. c.offset \in Word /\ c.value \in Seq(0 .. 255)
  BY <1>1, RequestTypes
<1>3. Word \subseteq Nat
  BY DEF Word
<1> QED
  BY <1>1, <1>2, <1>3

\* OverwrittenBy follows its recursion.
LEMMA OverwrittenByIs ==
    ASSUME NEW v \in Seq(Byte), NEW cs \in Seq(Chunk)
    PROVE  \E f : Applied(f, v, cs) /\ OverwrittenBy(v, cs) = f[Len(cs)]
<1> DEFINE D == Seq(Byte)
           N == Len(cs)
           g == [k \in 1 .. N |-> [x \in D |-> Overwritten(x, cs[k].offset, cs[k].value)]]
           Is(f) == f = [n \in 0 .. Len(cs) |->
                            IF n = 0 THEN v
                            ELSE Overwritten(f[n - 1], cs[n].offset, cs[n].value)]
           h == CHOOSE f : Is(f)
<1>1. N \in Nat /\ \A k \in 1 .. N : cs[k] \in Chunk
  BY LenProperties, ElementOfSeq
<1>2. ASSUME NEW k \in 1 .. N, NEW x \in D
      PROVE  g[k][x] = Overwritten(x, cs[k].offset, cs[k].value) /\ g[k][x] \in D
  <2>1. cs[k].offset \in Nat /\ cs[k].value \in Seq(0 .. 255)
    BY <1>1, ChunkTypes
  <2>2. Overwritten(x, cs[k].offset, cs[k].value) \in D
    BY <2>1, OverIs
  <2> QED
    BY <2>2
<1> HIDE DEF g, D, N
<1>3. PICK f : Runs(f, D, N, v, g)
  <2>1. v \in D
    BY DEF D
  <2>2. \A k \in 1 .. N : \A x \in D : g[k][x] \in D
    BY <1>2
  <2> QED
    BY <1>1, <2>1, <2>2, Recursion
<1>4. f \in [0 .. N -> D] /\ f[0] = v /\ \A k \in 1 .. N : f[k] = g[k][f[k - 1]]
  BY <1>3 DEF Runs
<1>5. \A k \in 1 .. N : f[k] = Overwritten(f[k - 1], cs[k].offset, cs[k].value)
  <2>1. \A k \in 1 .. N : k - 1 \in 0 .. N
    BY <1>1
  <2> QED
    BY <1>2, <1>4, <2>1
<1>6. Is(f)
  <2>1. \A n \in 0 .. N : f[n] = IF n = 0 THEN v
                                 ELSE Overwritten(f[n - 1], cs[n].offset, cs[n].value)
    BY <1>1, <1>4, <1>5
  <2>2. f = [n \in 0 .. N |-> IF n = 0 THEN v
                               ELSE Overwritten(f[n - 1], cs[n].offset, cs[n].value)]
    BY <1>4, <2>1
  <2> QED
    BY <2>2 DEF N
<1>7. Is(h)
  BY <1>6
<1>8. OverwrittenBy(v, cs) = h[N]
  BY DEF OverwrittenBy, N
<1>9. h[0] = v /\ \A k \in 1 .. N : h[k] = Overwritten(h[k - 1], cs[k].offset, cs[k].value)
  <2>1. h = [n \in 0 .. N |-> IF n = 0 THEN v
                               ELSE Overwritten(h[n - 1], cs[n].offset, cs[n].value)]
    BY <1>7 DEF N
  <2> HIDE DEF h
  <2>2. \A n \in 0 .. N : h[n] = IF n = 0 THEN v
                                 ELSE Overwritten(h[n - 1], cs[n].offset, cs[n].value)
    BY <2>1
  <2> QED
    BY <1>1, <2>2
<1> HIDE DEF h, Is
<1>10. h[N] = f[N]
  <2>1. Steps(f, v, cs, N) /\ Steps(h, v, cs, N)
    BY <1>4, <1>5, <1>9 DEF Steps
  <2> QED
    BY <1>1, <2>1, AppliedOnce
<1>11. Applied(f, v, cs)
  BY <1>4, <1>5 DEF Applied, Steps, D, N
<1> QED
  BY <1>8, <1>10, <1>11 DEF N

\* Prepared writes, the last of them apart.
LEMMA OverwrittenByLast ==
    ASSUME NEW v \in Seq(Byte)
    PROVE  /\ OverwrittenBy(v, <<>>) = v
           /\ \A cs \in Seq(Chunk) : \A c \in Chunk :
                 /\ OverwrittenBy(v, cs) \in Seq(Byte)
                 /\ OverwrittenBy(v, Append(cs, c))
                        = Overwritten(OverwrittenBy(v, cs), c.offset, c.value)
<1>1. OverwrittenBy(v, <<>>) = v
  <2> DEFINE e == <<>>
  <2>1. e \in Seq(Chunk) /\ Len(e) = 0
    OBVIOUS
  <2> HIDE DEF e
  <2>2. PICK f : Applied(f, v, e) /\ OverwrittenBy(v, e) = f[Len(e)]
    BY <2>1, OverwrittenByIs
  <2>3. OverwrittenBy(v, e) = v
    BY <2>1, <2>2 DEF Applied, Steps
  <2> QED
    BY <2>3 DEF e
<1>2. ASSUME NEW cs \in Seq(Chunk), NEW c \in Chunk
      PROVE  /\ OverwrittenBy(v, cs) \in Seq(Byte)
             /\ OverwrittenBy(v, Append(cs, c))
                    = Overwritten(OverwrittenBy(v, cs), c.offset, c.value)
  <2> DEFINE ds == Append(cs, c)
             n == Len(cs)
  <2>1. /\ ds \in Seq(Chunk) /\ Len(ds) = n + 1 /\ n \in Nat
        /\ \A i \in 1 .. n : ds[i] = cs[i]
        /\ ds[n + 1] = c
    BY AppendProperties, LenProperties
  <2> HIDE DEF ds
  <2>2. PICK f : Applied(f, v, cs) /\ OverwrittenBy(v, cs) = f[Len(cs)]
    BY OverwrittenByIs
  <2>3. PICK g : Applied(g, v, ds) /\ OverwrittenBy(v, ds) = g[Len(ds)]
    BY <2>1, OverwrittenByIs
  <2>4. f[0] = v /\ \A k \in 1 .. n : f[k] = Overwritten(f[k - 1], cs[k].offset, cs[k].value)
    BY <2>2 DEF Applied, Steps
  <2>5. /\ g[0] = v
        /\ \A k \in 1 .. n + 1 : g[k] = Overwritten(g[k - 1], ds[k].offset, ds[k].value)
    BY <2>1, <2>3 DEF Applied, Steps
  <2>6. \A k \in 1 .. n : g[k] = Overwritten(g[k - 1], cs[k].offset, cs[k].value)
    <3>1. \A k \in 1 .. n : k \in 1 .. n + 1
      BY <2>1
    <3> QED
      BY <2>1, <2>5, <3>1
  <2>7. g[n] = f[n]
    <3>1. Steps(f, v, cs, n) /\ Steps(g, v, cs, n)
      BY <2>4, <2>5, <2>6 DEF Steps
    <3> QED
      BY <2>1, <3>1, AppliedOnce
  <2>8. g[n + 1] = Overwritten(g[n], c.offset, c.value)
    <3>1. n + 1 \in 1 .. n + 1 /\ (n + 1) - 1 = n
      BY <2>1
    <3> QED
      BY <2>1, <2>5, <3>1
  <2>9. f[n] \in Seq(Byte)
    BY <2>1, <2>2 DEF Applied
  <2> QED
    BY <2>1, <2>2, <2>3, <2>7, <2>8, <2>9 DEF ds
<1> QED
  BY <1>1, <1>2

\* The invariant of the prepared writes: as long as store_prep_data keeps a
\* single entry, the entry is one write that does what they do together.
\* Once there are two entries, an Execute Write makes none of them.
Entire(p, cs) ==
    /\ cs # <<>>
    /\ p.offset + Len(p.value) = cs[Len(cs)].offset + Len(cs[Len(cs)].value)
    /\ \A v \in Seq(Byte) : OverwrittenBy(v, cs) = Overwritten(v, p.offset, p.value)
Prepared ==
    /\ chunks \in Seq(Chunk)
    /\ prep = <<>> => chunks = <<>>
    /\ Len(prep) = 1 => Entire(prep[1], chunks)

\* store_prep_data, append_prep_data, prep_data_new
LEMMA PreparedOne ==
    ASSUME State, Prepared, NEW req \in Chunk, req.handle = 14
    PROVE  /\ StorePrepData(req) # <<>>
           /\ Len(StorePrepData(req)) = 1 =>
                  Entire(StorePrepData(req)[1], Append(chunks, req))
<1> DEFINE n == Len(prep)
           cs == Append(chunks, req)
           r == [handle |-> req.handle, offset |-> req.offset, value |-> req.value]
<1>1. /\ req.offset \in Word /\ req.offset \in Nat /\ req.value \in Seq(0 .. 255)
      /\ prep \in Seq(PrepEntry) /\ n \in Nat /\ chunks \in Seq(Chunk) /\ Len(chunks) \in Nat
      /\ Len(req.value) \in Nat
  BY ChunkTypes, LenProperties DEF State, Prepared
<1>2. r \in PrepEntry /\ r.offset = req.offset /\ r.value = req.value
  BY <1>1 DEF PrepEntry
<1>3. /\ cs # <<>> /\ Len(cs) = Len(chunks) + 1 /\ cs[Len(cs)] = req
      /\ \A v \in Seq(Byte) :
            OverwrittenBy(v, cs) = Overwritten(OverwrittenBy(v, chunks), req.offset, req.value)
  <2>1. cs # <<>> /\ Len(cs) = Len(chunks) + 1 /\ cs[Len(chunks) + 1] = req
    BY <1>1, AppendProperties
  <2>2. ASSUME NEW v \in Seq(Byte)
        PROVE  OverwrittenBy(v, cs)
                   = Overwritten(OverwrittenBy(v, chunks), req.offset, req.value)
    BY <1>1, OverwrittenByLast
  <2> QED
    BY <2>1, <2>2
<1> HIDE DEF r, cs
<1>4. CASE prep # <<>> /\ Continues(Last(prep), req)
  <2> DEFINE p == prep[n]
             w == p.value \o req.value
             q == [p EXCEPT !.value = w]
  <2>1. n \in 1 .. Len(prep) /\ p \in PrepEntry /\ Last(prep) = p
    BY <1>1, <1>4, EmptySeq DEF Last
  <2>2. /\ p.offset \in Word /\ p.offset \in Nat /\ p.value \in Seq(0 .. 255)
        /\ Len(p.value) \in Nat
        /\ req.offset = p.offset + Len(p.value)
    <3>1. p.offset \in Word /\ p.value \in Seq(0 .. 255)
      BY <2>1 DEF PrepEntry
    <3>2. p.offset \in Nat /\ Len(p.value) \in Nat
      <4>1. Word \subseteq Nat
        BY DEF Word
      <4> QED
        BY <3>1, <4>1, LenProperties
    <3>3. req.offset = p.offset + Len(p.value)
      BY <1>4, <2>1 DEF Continues
    <3> QED
      BY <3>1, <3>2, <3>3
  <2>3. w \in Seq(0 .. 255) /\ Len(w) = Len(p.value) + Len(req.value)
    BY <1>1, <2>2, ConcatProperties
  <2>4. q \in PrepEntry /\ q.offset = p.offset /\ q.value = w
    <3> HIDE DEF w
    <3> QED
      BY <2>1, <2>3 DEF PrepEntry
  <2>5. StorePrepData(req) = [prep EXCEPT ![n] = q]
    BY <1>4 DEF StorePrepData
  <2> HIDE DEF q
  <2>6. /\ Len([prep EXCEPT ![n] = q]) = n
        /\ \A j \in 1 .. n : [prep EXCEPT ![n] = q][j] = IF j = n THEN q ELSE prep[j]
        /\ [prep EXCEPT ![n] = q] \in Seq(PrepEntry)
    BY <1>1, <2>1, <2>4, ExceptSeq
  <2>7. StorePrepData(req) # <<>> /\ Len(StorePrepData(req)) = n
    BY <1>1, <2>1, <2>5, <2>6, EmptySeq
  <2>8. ASSUME n = 1 PROVE Entire(StorePrepData(req)[1], cs)
    <3>1. StorePrepData(req)[1] = q /\ p = prep[1]
      BY <2>1, <2>5, <2>6, <2>8
    <3>2. \A v \in Seq(Byte) : OverwrittenBy(v, chunks) = Overwritten(v, p.offset, p.value)
      BY <2>8, <3>1 DEF Prepared, Entire
    <3>3. q.offset + Len(q.value) = req.offset + Len(req.value)
      <4> DEFINE x == p.offset
                 y == Len(p.value)
                 z == Len(req.value)
      <4>1. /\ x \in Nat /\ y \in Nat /\ z \in Nat /\ q.offset = x /\ Len(q.value) = y + z
            /\ req.offset = x + y
        BY <1>1, <2>2, <2>3, <2>4
      <4> HIDE DEF x, y, z
      <4>2. q.offset + Len(q.value) = req.offset + z
        BY <4>1
      <4> QED
        BY <4>2 DEF z
    <3> HIDE DEF p, w
    <3>4. ASSUME NEW v \in Seq(Byte)
          PROVE  OverwrittenBy(v, cs) = Overwritten(v, q.offset, q.value)
      <4>1. OverwrittenBy(v, cs)
              = Overwritten(Overwritten(v, p.offset, p.value), p.offset + Len(p.value), req.value)
        BY <1>3, <2>2, <3>2
      <4>2. Overwritten(Overwritten(v, p.offset, p.value), p.offset + Len(p.value), req.value)
              = Overwritten(v, p.offset, p.value \o req.value)
        <5> DEFINE o == p.offset
                   d1 == p.value
                   d2 == req.value
        <5>1. o \in Nat /\ d1 \in Seq(0 .. 255) /\ d2 \in Seq(0 .. 255)
          BY <1>1, <2>2
        <5> HIDE DEF o, d1, d2
        <5>2. Overwritten(Overwritten(v, o, d1), o + Len(d1), d2) = Overwritten(v, o, d1 \o d2)
          BY <5>1, OverTwice
        <5> QED
          BY <5>2 DEF o, d1, d2
      <4> QED
        BY <2>4, <4>1, <4>2 DEF w
    <3> QED
      BY <1>3, <3>1, <3>3, <3>4 DEF Entire
  <2> QED
    BY <2>7, <2>8 DEF cs
<1>5. CASE ~(prep # <<>> /\ Continues(Last(prep), req))
  <2>1. StorePrepData(req) = Append(prep, r)
    BY <1>5 DEF StorePrepData, r
  <2>2. /\ Append(prep, r) # <<>> /\ Len(Append(prep, r)) = n + 1
        /\ Append(prep, r)[n + 1] = r
    BY <1>1, <1>2, AppendProperties
  <2>3. ASSUME n + 1 = 1 PROVE Entire(r, cs)
    <3>1. chunks = <<>>
      <4>1. n = 0
        BY <1>1, <2>3
      <4>2. prep = <<>>
        BY <1>1, <4>1, EmptySeq
      <4> QED
        BY <4>2 DEF Prepared
    <3>2. \A v \in Seq(Byte) : OverwrittenBy(v, chunks) = v
      BY <3>1, OverwrittenByLast
    <3> QED
      BY <1>2, <1>3, <3>2 DEF Entire
  <2> QED
    BY <2>1, <2>2, <2>3 DEF cs
<1> QED
  BY <1>4, <1>5

\* Every request keeps the invariant of the prepared writes.
LEMMA PreparedKept ==
    ASSUME State, Prepared, [Next]_vars
    PROVE  Prepared'
<1>1. ASSUME UNCHANGED <<prep, chunks>> PROVE Prepared'
  BY <1>1 DEF Prepared, Entire
<1>2. ASSUME Forget PROVE Prepared'
  <2>1. prep' = <<>> /\ chunks' = <<>> /\ Len(<<>>) # 1 /\ <<>> \in Seq(Chunk)
    BY <1>2 DEF Forget
  <2> QED
    BY <2>1 DEF Prepared
<1>3. ASSUME NEW req \in Requests, Look(req) \/ ExchangeMtu(req) \/ WriteRequest(req)
      PROVE  Prepared'
  <2>1. UNCHANGED <<prep, chunks>>
    BY <1>3, Zenon DEF Look, ExchangeMtu, WriteRequest
  <2> QED
    BY <1>1, <2>1
<1>4. ASSUME NEW req \in Requests, Execute(req) \/ Malformed(req) PROVE Prepared'
  <2>1. UNCHANGED <<prep, chunks>> \/ Forget
    BY <1>4, Zenon DEF Execute, Malformed
  <2> QED
    BY <1>1, <1>2, <2>1
<1>5. ASSUME NEW req \in Requests, Prepare(req) PROVE Prepared'
  <2> DEFINE a == At(req.handle)
  <2>1. \/ UNCHANGED <<prep, chunks>>
        \/ /\ prep' = StorePrepData(req) /\ chunks' = Append(chunks, req)
           /\ a # None /\ ~~Permits(a, "WRITE") /\ a.write = "stored"
    BY <1>5, Zenon DEF Prepare
  <2>2. req \in Chunk
    BY <1>5 DEF Prepare, Chunk
  <2>3. CASE /\ prep' = StorePrepData(req) /\ chunks' = Append(chunks, req)
             /\ a # None /\ ~~Permits(a, "WRITE") /\ a.write = "stored"
    <3>1. req.handle = 14
      BY <2>3, WritableIsData DEF State
    <3>2. Append(chunks, req) \in Seq(Chunk)
      BY <2>2, AppendProperties DEF Prepared
    <3>3. prep' # <<>> /\ (Len(prep') = 1 => Entire(prep'[1], chunks'))
      BY <2>2, <2>3, <3>1, PreparedOne
    <3> QED
      BY <2>3, <3>2, <3>3 DEF Prepared, Entire
  <2> QED
    BY <1>1, <2>1, <2>3
<1>6. CASE UNCHANGED vars
  BY <1>1, <1>6 DEF vars
<1> QED
  BY <1>3, <1>4, <1>5, <1>6, Zenon DEF Next

\* The queue is empty at first.
LEMMA InitPrepared == Init => Prepared
<1> SUFFICES ASSUME Init PROVE Prepared
  OBVIOUS
<1>1. prep = <<>> /\ chunks = <<>> /\ Len(<<>>) # 1 /\ <<>> \in Seq(Chunk)
  BY DEF Init
<1> QED
  BY <1>1 DEF Prepared

\* exec_next_prep_write of one entry.
LEMMA WriteAllOne ==
    ASSUME State, Prepared, WriteAll, ~Unreliable,
           \A i \in DOMAIN chunks : chunks[i].offset + Len(chunks[i].value) < LenMod
    PROVE  Attr(db', 14).value = OverwrittenBy(Attr(db, 14).value, chunks)
<1> DEFINE WriteOne(e, p) == SetValue(e, p.handle,
               Stored(Db!GetAttribute(e, p.handle).value, p.offset, p.value))
           f == CHOOSE x : Upto(x, db, prep)
           n == Len(prep)
           old == Attr(db, 14).value
<1>1. /\ Layout(db) /\ prep \in Seq(PrepEntry) /\ n \in Nat /\ n <= 1
      /\ chunks \in Seq(Chunk) /\ DOMAIN chunks = 1 .. Len(chunks) /\ Len(chunks) \in Nat
  <2>1. Layout(db) /\ prep \in Seq(PrepEntry) /\ n \in Nat
        /\ chunks \in Seq(Chunk) /\ DOMAIN chunks = 1 .. Len(chunks) /\ Len(chunks) \in Nat
    BY LenProperties DEF State, Prepared
  <2> QED
    BY <2>1 DEF Unreliable
<1>2. Upto(f, db, prep)
  BY <1>1, UptoExists
<1>3. db' = f[n]
  BY DEF WriteAll, Upto
<1> HIDE DEF f
<1>4. \A k \in 0 .. n : f[k] = IF k = 0 THEN db ELSE WriteOne(f[k - 1], prep[k])
  <2>1. f = [k \in 0 .. n |-> IF k = 0 THEN db ELSE WriteOne(f[k - 1], prep[k])]
    BY <1>2 DEF Upto
  <2> HIDE DEF WriteOne
  <2> QED
    BY <2>1
<1>5. old \in Values(14) /\ old \in Seq(Byte) /\ 14 \in 1 .. 18
  <2>1. Attr(db, 14) \in Kind(14)
    BY <1>1, AttrKind
  <2> QED
    BY <2>1 DEF Kind, Values
<1>6. CASE n = 0
  <2>1. db' = db
    BY <1>3, <1>4, <1>6
  <2>2. chunks = <<>>
    BY <1>1, <1>6, EmptySeq DEF Prepared
  <2> QED
    BY <1>5, <2>1, <2>2, OverwrittenByLast
<1>7. CASE n = 1
  <2> DEFINE p == prep[1]
             new == Stored(old, p.offset, p.value)
  <2>1. Entire(p, chunks)
    BY <1>7 DEF Prepared
  <2>2. p.handle = 14 /\ p.offset \in Word /\ p.offset \in Nat /\ p.value \in Seq(0 .. 255)
    <3>1. p \in PrepEntry
      <4>1. \A i \in 1 .. Len(prep) : prep[i] \in PrepEntry
        BY <1>1, ElementOfSeq
      <4> QED
        BY <1>7, <4>1
    <3>2. Word \subseteq Nat
      BY DEF Word
    <3> QED
      BY <3>1, <3>2 DEF PrepEntry
  <2>3. p.offset + Len(p.value) < LenMod
    <3>1. Len(chunks) \in DOMAIN chunks
      <4>1. Len(chunks) # 0
        BY <1>1, <2>1, EmptySeq DEF Entire
      <4> QED
        BY <1>1, <4>1
    <3>2. p.offset + Len(p.value) = chunks[Len(chunks)].offset + Len(chunks[Len(chunks)].value)
      BY <2>1 DEF Entire
    <3> QED
      BY <3>1, <3>2
  <2>4. new = Overwritten(old, p.offset, p.value) /\ new \in Values(14)
    BY <1>5, <2>2, <2>3, StoredIs, StoredType
  <2>5. OverwrittenBy(old, chunks) = Overwritten(old, p.offset, p.value)
    BY <1>5, <2>1 DEF Entire
  <2>6. db' = SetValue(db, 14, new)
    <3>1. f[0] = db /\ f[1] = WriteOne(f[0], p)
      <4>1. 0 \in 0 .. n /\ 1 \in 0 .. n /\ 1 - 1 = 0 /\ 1 # 0
        BY <1>7
      <4> HIDE DEF WriteOne
      <4> QED
        BY <1>4, <4>1
    <3>2. Db!GetAttribute(db, 14) = Attr(db, 14)
      BY <1>1, <1>5, AttributeFound
    <3> QED
      BY <1>3, <1>7, <2>2, <3>1, <3>2
  <2> HIDE DEF new, old
  <2>7. Attr(db', 14) = [Attr(db, 14) EXCEPT !.value = new]
    BY <1>1, <1>5, <2>4, <2>6, SetAttr, SMTT(30)
  <2>8. Attr(db, 14) \in [handle : {14}, uuid : UuidsOf(14), perms : {PermsOf(14)},
                          value : Values(14), read : {ReadOf(14)}, write : {WriteOf(14)}]
    BY <1>1, <1>5, AttrKind DEF Kind
  <2>9. Attr(db', 14).value = new
    BY <2>7, <2>8
  <2> QED
    BY <2>4, <2>5, <2>9 DEF old
<1>8. n = 0 \/ n = 1
  <2>1. n \in Nat /\ n <= 1
    BY <1>1
  <2> HIDE DEF n
  <2> QED
    BY <2>1
<1> QED
  BY <1>6, <1>7, <1>8

-----------------------------------------------------------------------------
(* Reading back *)

\* A Read Request behind a write.
Reread(h) == ReadAnswer([op |-> "READ", handle |-> h, offset |-> 0])

\* The first elements of a sequence.
Over(s, n, S) == \A i \in 1 .. n : s[i] \in S
Begins(t, s, n, S) == t \in Seq(S) /\ Len(t) = n /\ \A i \in 1 .. n : t[i] = s[i]
\* SubSeq from the first element on.
LEMMA FirstOf ==
    ASSUME NEW S, NEW s, NEW n \in Nat, Over(s, n, S), NEW m, m = 1
    PROVE  Begins(SubSeq(s, m, n), s, n, S)
<1>1. m \in Int /\ n \in Int /\ m = 1 /\ \A i \in m .. n : s[i] \in S
  BY DEF Over
<1>2. /\ SubSeq(s, m, n) \in Seq(S)
      /\ Len(SubSeq(s, m, n)) = IF m <= n THEN n - m + 1 ELSE 0
      /\ \A i \in 1 .. n - m + 1 : SubSeq(s, m, n)[i] = s[m + i - 1]
  BY <1>1, SubSeqProperties
<1>3. n - m + 1 = n /\ (IF m <= n THEN n - m + 1 ELSE 0) = n
      /\ \A i \in 1 .. n : m + i - 1 = i
  BY <1>1
<1> QED
  BY <1>1, <1>2, <1>3 DEF Begins

\* What begins a stored value begins the answer.
LEMMA DataReread ==
    ASSUME State, NEW w \in Seq(0 .. 255), Len(w) <= mtu.att - 1, Len(w) <= Len(At(14).value),
           \A i \in 1 .. Len(w) : At(14).value[i] = w[i]
    PROVE  IsPrefix(w, Reread(14).body)
<1> DEFINE v == At(14).value
           req == [op |-> "READ", handle |-> 14, offset |-> 0]
           room == mtu.att - 1
           e == IF room <= Len(v) THEN room ELSE Len(v)
<1>1. /\ v \in Seq(Byte) /\ 14 \in Stores /\ Len(v) \in Nat /\ Len(w) \in Nat /\ room \in Nat
  <2>1. 14 \in 1 .. 18 /\ At(14) \in Kind(14)
    BY AtHandle DEF State
  <2>2. v \in Seq(Byte) /\ 14 \in Stores
    BY <2>1 DEF Kind, Values, ReadOf, WriteOf, Stores
  <2>3. room \in Nat
    BY DEF State, DEFAULT_LE_MTU
  <2> QED
    BY <2>2, <2>3, LenProperties
<1>2. Reread(14).body = SubSeq(v, 1, e)
  <2> DEFINE h == 14
             o == 0
             d == IF o + (mtu.att - 1) <= Len(At(h).value)
                      THEN o + (mtu.att - 1) ELSE Len(At(h).value)
  <2>1. h \in Stores /\ req.op \in {"READ", "READ_BLOB"} /\ req.handle = h /\ o \in Nat
        /\ req.offset = o /\ o <= Len(At(h).value)
    BY <1>1
  <2>2. h = 14 /\ o + 1 = 1 /\ d = e
    BY <1>1
  <2> HIDE DEF h, o, req
  <2>3. ReadAnswer(req).body = SubSeq(At(h).value, o + 1, d)
    BY <2>1, StoredPiece
  <2> HIDE DEF d, e
  <2> QED
    BY <2>2, <2>3 DEF Reread, req
<1>3. Len(w) <= e /\ e \in Nat /\ e <= Len(v)
  BY <1>1
<1> DEFINE t == SubSeq(v, 1, e)
<1>4. t \in Seq(Byte) /\ Len(t) = e /\ \A i \in 1 .. e : t[i] = v[i]
  <2>1. Over(v, e, Byte)
    BY <1>1, <1>3 DEF Over
  <2> DEFINE m == 1
  <2>2. m = 1
    OBVIOUS
  <2> HIDE DEF e, v, m
  <2>3. Begins(SubSeq(v, m, e), v, e, Byte)
    BY <1>3, <2>1, <2>2, FirstOf
  <2>4. Begins(t, v, e, Byte)
    BY <2>2, <2>3
  <2> HIDE DEF t
  <2> QED
    BY <2>4 DEF Begins
<1> HIDE DEF e, t, v
<1> DEFINE k == Len(w)
<1>5. \A i \in 1 .. k : t[i] = w[i] /\ t[i] \in Byte /\ w[i] \in Byte
  <2>1. \A i \in 1 .. k : i \in 1 .. e
    BY <1>1, <1>3
  <2>2. \A i \in 1 .. k : t[i] = v[i] /\ t[i] \in Byte
    BY <1>4, <2>1
  <2> QED
    BY <2>2 DEF v
<1>6. SubSeq(w, 1, k) = SubSeq(t, 1, k)
  <2>1. k \in Nat
    BY <1>1
  <2> HIDE DEF k
  <2>2. Over(w, k, Byte) /\ Over(t, k, Byte)
    BY <1>5 DEF Over
  <2> DEFINE x == SubSeq(w, 1, k)
             y == SubSeq(t, 1, k)
  <2> DEFINE m == 1
  <2>6. m = 1
    OBVIOUS
  <2> HIDE DEF m
  <2>7. Begins(SubSeq(w, m, k), w, k, Byte) /\ Begins(SubSeq(t, m, k), t, k, Byte)
    BY <2>1, <2>2, <2>6, FirstOf
  <2>3. Begins(x, w, k, Byte) /\ Begins(y, t, k, Byte)
    BY <2>6, <2>7
  <2> HIDE DEF x, y
  <2>4. x \in Seq(Byte) /\ y \in Seq(Byte) /\ Len(x) = Len(y) /\ \A i \in 1 .. Len(x) : x[i] = y[i]
    BY <1>5, <2>3 DEF Begins
  <2>5. x = y
    BY <2>4, SeqEqual
  <2> QED
    BY <2>5 DEF x, y
<1> QED
  BY <1>2, <1>3, <1>4, <1>6 DEF IsPrefix, t

\* The first byte of a client characteristic configuration is the flag.
LEMMA CccReread ==
    ASSUME State, NEW h \in {11, 15}
    PROVE  /\ At(h).write \in Cccs /\ At(h).write = WriteOf(h)
           /\ Reread(h).body[1] = IF flags[WriteOf(h)] THEN OnByte[WriteOf(h)] ELSE 0
<1> DEFINE a == At(h)
           c == WriteOf(h)
           req == [op |-> "READ", handle |-> h, offset |-> 0]
           b == IF flags[c] THEN OnByte[c] ELSE 0
           data == <<b, 0>>
           len == Min({mtu.att - 1, 2})
<1>1. /\ h \in 1 .. 18 /\ a \in Attributes /\ a.read = c /\ a.write = c /\ a.perms = RW
      /\ c \in Cccs
  <2>1. h \in 1 .. 18 /\ a \in Kind(h)
    <3>1. h \in 1 .. 18
      OBVIOUS
    <3>2. Layout(db)
      BY DEF State
    <3> QED
      BY <3>1, <3>2, AtHandle
  <2>2. /\ ReadOf(h) = c /\ PermsOf(h) = RW /\ c \in Cccs
    BY DEF ReadOf, WriteOf, PermsOf, Cccs, OnByte
  <2>3. a \in Attributes
    BY <2>1, KindType
  <2>4. a.read = ReadOf(h) /\ a.write = WriteOf(h) /\ a.perms = PermsOf(h)
    BY <2>1 DEF Kind
  <2> QED
    BY <2>1, <2>2, <2>3, <2>4
<1>2. a # None /\ Permits(a, "READ") /\ OffsetFits(a, 0)
  <2>1. c # "stored"
    BY <1>1 DEF Cccs, OnByte
  <2> QED
    BY <1>1, <2>1, NoneAssumption DEF Permits, OffsetFits, RW
<1>3. Value(a, 0) = data
  <2>1. a.read # "svc_chngd" /\ a.read # "stored" /\ a.read \in Cccs
    BY <1>1 DEF Cccs, OnByte
  <2>2. Value(a, 0) = Bytes(flags[a.read], OnByte[a.read])
    BY <2>1 DEF Value
  <2> QED
    BY <1>1, <2>2 DEF Bytes
<1>4. Reread(h) = Pdu(ReadRsp["READ"], 1 + len, SubSeq(data, 1, len))
  <2>1. Reread(h) = ReadAnswer(req) /\ req.handle = h /\ req.offset = 0 /\ req.op = "READ"
    BY DEF Reread
  <2>2. Len(data) = 2
    OBVIOUS
  <2> HIDE DEF req, data, a
  <2>3. At(req.handle) = a
    BY <2>1 DEF a
  <2> QED
    BY <1>2, <1>3, <2>1, <2>2, <2>3 DEF ReadAnswer
<1>5. len = 2
  <2> DEFINE m == mtu.att - 1
             two == 2
  <2>1. m \in Int /\ two \in Int /\ two = 2 /\ ~(m <= two)
    BY DEF State, DEFAULT_LE_MTU
  <2> HIDE DEF m, two
  <2>2. Min({m, two}) = IF m <= two THEN m ELSE two
    BY <2>1, Extremes
  <2> QED
    BY <2>1, <2>2 DEF m, two
<1>6. SubSeq(data, 1, 2)[1] = b
  <2> DEFINE two == 2
             one == 1
  <2>1. two \in Nat /\ one \in 1 .. two /\ Over(data, two, {b, 0})
    BY DEF Over
  <2>2. data[one] = b /\ one = 1 /\ two = 2
    OBVIOUS
  <2> HIDE DEF two, one, data
  <2>3. Begins(SubSeq(data, one, two), data, two, {b, 0})
    BY <2>1, <2>2, FirstOf
  <2>4. SubSeq(data, one, two)[one] = data[one]
    BY <2>1, <2>3 DEF Begins
  <2> QED
    BY <2>2, <2>4
<1> HIDE DEF data, len
<1>7. Reread(h).body = SubSeq(data, 1, 2)
  BY <1>4, <1>5 DEF Pdu
<1> QED
  BY <1>1, <1>6, <1>7

\* All of this as formulas, for the state behind a step.
DataReads ==
    \A x \in Seq(0 .. 255) :
        Len(x) <= mtu.att - 1 /\ Len(x) <= Len(At(14).value)
            /\ (\A i \in 1 .. Len(x) : At(14).value[i] = x[i])
        => IsPrefix(x, Reread(14).body)
CccReads ==
    \A x \in {11, 15} :
        /\ At(x).write \in Cccs /\ At(x).write = WriteOf(x)
        /\ Reread(x).body[1] = IF flags[WriteOf(x)] THEN OnByte[WriteOf(x)] ELSE 0
HandlesRead == \A x \in 1 .. 18 : At(x) = Attr(db, x) /\ At(x) \in Kind(x)

\* They hold where State holds.
LEMMA AllReread == State => DataReads /\ CccReads /\ HandlesRead
<1> SUFFICES ASSUME State PROVE DataReads /\ CccReads /\ HandlesRead
  OBVIOUS
<1>1. DataReads
  BY DataReread DEF DataReads
<1>2. CccReads
  BY CccReread DEF CccReads
<1>3. HandlesRead
  BY AtHandle DEF State, HandlesRead
<1> QED
  BY <1>1, <1>2, <1>3

\* WrittenIsRead of a request and its answers.
ReadsBack(req, out) ==
    req.op = "WRITE" /\ Last(out).op = "WRITE_RSP" /\ "READ" \in At(req.handle).perms
    => IF At(req.handle).write \in Cccs THEN Reread(req.handle).body[1] = req.value[1]
       ELSE IsPrefix(req.value, Reread(req.handle).body)

\* WrittenIsRead of the last exchange.
LEMMA WrittenIs == WrittenIsRead <=> ReadsBack(last.req, last.out)
BY DEF WrittenIsRead, ReadsBack, Reread

\* write_cb, and what a Read Request finds then.
LEMMA WriteReadsBack ==
    ASSUME State, State', NEW req \in Requests, WriteRequest(req), req.op = "WRITE",
           Len(req.value) < LenMod
    PROVE  ReadsBack(last.req, last.out)'
<1> DEFINE h == req.handle
           a == At(h)
           w == req.value
<1>1. /\ w \in Seq(0 .. 255) /\ Len(w) \in Nat /\ Layout(db) /\ mtu' = mtu
      /\ Len(w) <= mtu.att - 1 /\ mtu.att \in Nat
  <2>1. w \in Seq(0 .. 255) /\ Len(w) \in Nat /\ Layout(db) /\ mtu.att \in Nat
    BY RequestTypes, LenProperties DEF State
  <2>2. mtu' = mtu /\ 3 + Len(w) <= mtu.att
    BY Zenon DEF WriteRequest, Carries
  <2> HIDE DEF w
  <2> QED
    BY <2>1, <2>2
<1>2. \/ \E code : Refused(req, code)
      \/ /\ a # None /\ ~~Permits(a, "WRITE") /\ ~(WriteError(a, 0, w) # "") /\ Made(req, a)
  BY Zenon DEF WriteRequest
<1>7. DataReads' /\ CccReads' /\ HandlesRead'
  <2>1. (State => DataReads /\ CccReads /\ HandlesRead)'
    BY AllReread, PTL
  <2> QED
    BY <2>1
<1>6. \/ \E code : Refused(req, code)
      \/ a # None /\ Permits(a, "WRITE") /\ WriteError(a, 0, w) = "" /\ Made(req, a)
  BY <1>2, Zenon
<1>3. last'.req = req
  <2>1. \E out : Sent(req, out)
    BY <1>2, Zenon DEF Refused, Made
  <2> QED
    BY <2>1 DEF Sent
<1>4. CASE \E code : Refused(req, code)
  <2>1. PICK code : last' = [req |-> req, out |-> <<Error(req, req.handle, code)>>,
                            up |-> TRUE]
    BY <1>4 DEF Refused, Sent
  <2>2. Last(last'.out).op = "ERROR"
    BY <2>1 DEF Last, Error, Pdu
  <2>3. Last(last.out)'.op # "WRITE_RSP"
    BY <2>2 DEF Last
  <2> QED
    BY <2>3 DEF ReadsBack
<1>5. CASE a # None /\ Permits(a, "WRITE") /\ WriteError(a, 0, w) = "" /\ Made(req, a)
  <2>1. h \in 1 .. 18 /\ a \in Kind(h) /\ a = Attr(db, h)
    <3>1. a # None
      BY <1>5, Zenon
    <3>2. Layout(db)
      BY <1>1
    <3> QED
      BY <3>1, <3>2, AtHandle
  <2>3. At(h)' \in Kind(h) /\ At(h)' = Attr(db', h)
    BY <1>7, <2>1 DEF HandlesRead
  <2>4. /\ a.perms = PermsOf(h) /\ a.write = WriteOf(h) /\ a.handle = h /\ a.value \in Values(h)
        /\ (At(h)').perms = PermsOf(h) /\ (At(h)').write = WriteOf(h)
    BY <2>1, <2>3 DEF Kind
  <2>5. \/ "READ" \notin PermsOf(h)
        \/ h = 14 \/ h \in {11, 15}
    <3>1. PermsOf(h) # {} /\ "WRITE" \in PermsOf(h)
      <4>1. PermsOf(h) # {}
        BY DEF PermsOf, RW
      <4>2. Permits(a, "WRITE")
        BY <1>5, Zenon
      <4> HIDE DEF a
      <4> QED
        BY <2>4, <4>1, <4>2 DEF Permits
    <3> QED
      BY <3>1 DEF PermsOf
  <2>6. CASE "READ" \notin PermsOf(h)
    <3>1. "READ" \notin (At(h)').perms
      BY <2>4, <2>6
    <3> QED
      BY <1>3, <3>1, Zenon DEF ReadsBack
  <2>7. CASE h = 14
    <3>1. db' = SetValue(db, 14, Stored(a.value, 0, w))
      <4>1. a.write = "stored" /\ a.handle = 14
        BY <2>4, <2>7 DEF WriteOf
      <4>2. Write(a, 0, w)
        BY <1>5, Zenon DEF Made
      <4> QED
        BY <4>1, <4>2 DEF Write
    <3> DEFINE v == Stored(a.value, 0, w)
    <3>2. v = Overwritten(a.value, 0, w) /\ v \in Values(14) /\ a.value \in Values(14)
          /\ a.value \in Seq(Byte)
      <4>1. a.value \in Values(14) /\ a.value \in Seq(Byte)
        BY <2>4, <2>7 DEF Values
      <4> DEFINE o == 0
      <4>2. o \in Nat /\ o \in Word /\ o + Len(w) < LenMod /\ o = 0
        BY <1>1 DEF Word
      <4> HIDE DEF o, w, a
      <4>3. Stored(a.value, o, w) = Overwritten(a.value, o, w) /\ Stored(a.value, o, w) \in Values(14)
        BY <1>1, <4>1, <4>2, StoredIs, StoredType
      <4> QED
        BY <4>1, <4>2, <4>3
    <3>3. Len(w) <= Len(v) /\ \A i \in 1 .. Len(w) : v[i] = w[i]
      <4> DEFINE o == 0
                 old == a.value
      <4>1. /\ o \in Nat /\ o = 0 /\ old \in Seq(Byte) /\ Len(old) \in Nat /\ v = Overwritten(old, o, w)
        BY <3>2, LenProperties
      <4> HIDE DEF o, w, v, old
      <4>2. /\ Len(v) = OverLen(old, o, w)
            /\ \A i \in 1 .. OverLen(old, o, w) : v[i] = OverAt(old, o, w, i)
        BY <1>1, <4>1, OverIs
      <4>3. w = <<>> => Len(w) = 0
        BY EmptySeq
      <4>4. Len(w) <= Len(v)
        BY <1>1, <4>1, <4>2, <4>3 DEF OverLen
      <4>5. ASSUME NEW i \in 1 .. Len(w) PROVE v[i] = w[i]
        <5>1. i \in 1 .. OverLen(old, o, w) /\ i > o /\ i <= o + Len(w) /\ i - o = i
          BY <1>1, <4>1, <4>2, <4>4
        <5>2. OverAt(old, o, w, i) = w[i - o]
          BY <5>1 DEF OverAt
        <5> QED
          BY <4>2, <5>1, <5>2
      <4> QED
        BY <4>4, <4>5
    <3> HIDE DEF v
    <3>4. (At(h)').value = v /\ At(h)' = At(14)'
      <4>1. Attr(db', 14) = [Attr(db, 14) EXCEPT !.value = v]
        <5>1. 14 \in 1 .. 18 /\ db' = SetValue(db, 14, v)
          BY <3>1 DEF v
        <5>2. Layout(db) /\ v \in Values(14)
          BY <1>1, <3>2
        <5> HIDE DEF a, w
        <5> QED
          BY <5>1, <5>2, SetAttr
      <4>2. Attr(db, 14) \in [handle : {14}, uuid : UuidsOf(14), perms : {PermsOf(14)},
                              value : Values(14), read : {ReadOf(14)}, write : {WriteOf(14)}]
        BY <2>1, <2>7 DEF Kind
      <4>3. Attr(db', 14).value = v
        BY <4>1, <4>2
      <4>4. At(h)' = At(14)'
        BY <2>7
      <4> QED
        BY <2>3, <2>7, <4>3, <4>4
    <3>5. IsPrefix(w, Reread(14).body')
      <4>1. /\ Len(w) <= mtu'.att - 1 /\ Len(w) <= Len((At(14)').value)
            /\ \A i \in 1 .. Len(w) : (At(14)').value[i] = w[i]
        BY <1>1, <3>3, <3>4
      <4> QED
        BY <1>1, <1>7, <4>1 DEF DataReads
    <3>6. (At(h)').write \notin Cccs
      <4>1. WriteOf(14) \notin Cccs
        BY DEF WriteOf, Cccs, OnByte
      <4> QED
        BY <2>4, <2>7, <4>1
    <3> QED
      BY <1>3, <2>7, <3>5, <3>6, Zenon DEF ReadsBack
  <2>8. CASE h \in {11, 15}
    <3> DEFINE c == WriteOf(h)
    <3>1. /\ (At(h)').write \in Cccs
          /\ Reread(h).body[1]' = IF flags'[c] THEN OnByte[c] ELSE 0
      BY <1>7, <2>8 DEF CccReads
    <3>2. c \in Cccs /\ c # "stored" /\ c # "clock" /\ OnByte[c] # 0
      BY <2>8 DEF WriteOf, Cccs, OnByte
    <3>3. Len(w) = 2 /\ w[1] \in {0, OnByte[c]}
      <4>1. a.write = c /\ WriteError(a, 0, w) = ""
        BY <1>5, <2>4, Zenon
      <4>2. LengthFits(a, w) /\ w[1] \in {0, OnByte[c]}
        BY <3>2, <4>1 DEF WriteError
      <4>3. a.write \in Cccs /\ a.write # "clock"
        BY <3>2, <4>1, Zenon
      <4> HIDE DEF a, w
      <4>4. Len(w) = 2
        BY <4>2, <4>3 DEF LengthFits
      <4> QED
        BY <4>2, <4>4
    <3>4. flags' = [flags EXCEPT ![c] = w[1] # 0]
      <4>1. Write(a, 0, w)
        BY <1>5, Zenon DEF Made
      <4> QED
        BY <2>4, <3>2, <4>1 DEF Write
    <3>5. flags'[c] = (w[1] # 0)
      BY <3>2, <3>4 DEF State
    <3>6. Reread(h).body[1]' = w[1]
      BY <3>1, <3>2, <3>3, <3>5
    <3> QED
      BY <1>3, <3>1, <3>6, Zenon DEF ReadsBack
  <2> QED
    BY <2>5, <2>6, <2>7, <2>8, Zenon
<1> QED
  BY <1>4, <1>5, <1>6, Zenon

-----------------------------------------------------------------------------
(* Writes are made as a whole *)

\* What a step shows of WritesWhole.
Wholly(req) ==
    LET written == /\ req.op = "EXEC_WRITE" /\ req.flags = 1
                   /\ last'.out[1].op = "EXEC_WRITE_RSP"
        fits == \A i \in DOMAIN chunks : chunks[i].offset + Len(chunks[i].value) < LenMod
    IN  /\ req.op = "EXEC_WRITE" => prep' = <<>>
        /\ written /\ fits => At(14)'.value = OverwrittenBy(At(14).value, chunks)
        /\ ~written /\ req.op \notin {"WRITE", "WRITE_CMD"} => db' = db
        /\ req.op \notin {"WRITE", "WRITE_CMD"} => flags' = flags

\* exec_write_cb
LEMMA ExecuteWholly ==
    ASSUME State, State', Prepared, NEW req \in Requests, Execute(req)
    PROVE  Wholly(req)
<1> DEFINE out == last'.out
           fits == \A i \in DOMAIN chunks : chunks[i].offset + Len(chunks[i].value) < LenMod
<1>1. req.op = "EXEC_WRITE" /\ prep' = <<>>
  BY DEF Execute, Forget
<1>2. \/ UNCHANGED <<db, flags>> /\ req.flags # 1
      \/ UNCHANGED <<db, flags>> /\ \E h, code : Sent(req, <<Error(req, h, code)>>)
      \/ /\ req.flags = 1 /\ ~Unreliable /\ Sent(req, <<Executed>>) /\ WriteAll
  <2>1. req.flags = 0 => req.flags # 1
    OBVIOUS
  <2>2. req.flags \notin {0, 1} => req.flags # 1
    OBVIOUS
  <2> QED
    BY <2>1, <2>2, Zenon DEF Execute
<1>3. CASE UNCHANGED <<db, flags>> /\ req.flags # 1
  BY <1>1, <1>3, Zenon DEF Wholly
<1>4. CASE UNCHANGED <<db, flags>> /\ \E h, code : Sent(req, <<Error(req, h, code)>>)
  <2>1. out[1].op # "EXEC_WRITE_RSP"
    BY <1>4 DEF Sent, Error, Pdu
  <2> QED
    BY <1>1, <1>4, <2>1, Zenon DEF Wholly
<1>5. CASE req.flags = 1 /\ ~Unreliable /\ Sent(req, <<Executed>>) /\ WriteAll
  <2>1. out[1].op = "EXEC_WRITE_RSP"
    BY <1>5 DEF Sent, Executed, Pdu
  <2>2. flags' = flags
    BY <1>5 DEF WriteAll
  <2>3. ASSUME fits PROVE At(14)'.value = OverwrittenBy(At(14).value, chunks)
    <3>1. Attr(db', 14).value = OverwrittenBy(Attr(db, 14).value, chunks)
      BY <1>5, <2>3, WriteAllOne
    <3>2. HandlesRead /\ HandlesRead'
      <4>1. (State => DataReads /\ CccReads /\ HandlesRead)'
        BY AllReread, PTL
      <4> QED
        BY <4>1, AllReread
    <3>3. At(14) = Attr(db, 14) /\ At(14)' = Attr(db', 14)
      BY <3>2 DEF HandlesRead
    <3> QED
      BY <3>1, <3>3
  <2> QED
    BY <1>1, <1>5, <2>1, <2>2, <2>3, Zenon DEF Wholly
<1> QED
  BY <1>2, <1>3, <1>4, <1>5

\* WrittenIsRead of a step that is no write.
LEMMA NoWrite ==
    ASSUME last'.req.op # "WRITE"
    PROVE  WrittenIsRead'
<1>1. (WrittenIsRead <=> ReadsBack(last.req, last.out))'
  BY WrittenIs, PTL
<1>2. ReadsBack(last.req, last.out)'
  BY DEF ReadsBack
<1> QED
  BY <1>1, <1>2, Zenon

\* Every step
LEMMA StepWholly ==
    ASSUME State, State', Prepared, Next,
           \A req \in Requests : req.op = "WRITE" => Len(req.value) < LenMod
    PROVE  WrittenIsRead' /\ Wholly(last'.req)
<1>1. ASSUME NEW req \in Requests, Execute(req)
      PROVE  WrittenIsRead' /\ Wholly(last'.req)
  <2>1. last'.req = req /\ req.op = "EXEC_WRITE"
    <3>1. req.op = "EXEC_WRITE" /\ \E out : Sent(req, out)
      BY <1>1, Zenon DEF Execute
    <3> QED
      BY <3>1 DEF Sent
  <2>2. Wholly(req)
    BY <1>1, ExecuteWholly
  <2> QED
    BY <2>1, <2>2, NoWrite
<1>2. ASSUME NEW req \in Requests, WriteRequest(req)
      PROVE  WrittenIsRead' /\ Wholly(last'.req)
  <2>1. last'.req = req /\ req.op \in {"WRITE", "WRITE_CMD"}
    <3>1. req.op \in {"WRITE", "WRITE_CMD"} /\ \E out : Sent(req, out)
      BY <1>2, Zenon DEF WriteRequest, Refused, Made
    <3> QED
      BY <3>1 DEF Sent
  <2>2. Wholly(req)
    BY <2>1 DEF Wholly
  <2>3. CASE req.op = "WRITE"
    <3>1. Len(req.value) < LenMod
      BY <2>3
    <3>2. ReadsBack(last.req, last.out)'
      BY <1>2, <2>3, <3>1, WriteReadsBack
    <3>3. (WrittenIsRead <=> ReadsBack(last.req, last.out))'
      BY WrittenIs, PTL
    <3> QED
      BY <2>1, <2>2, <3>2, <3>3, Zenon
  <2>4. CASE req.op # "WRITE"
    BY <2>1, <2>2, <2>4, NoWrite
  <2> QED
    BY <2>3, <2>4
<1>3. ASSUME NEW req \in Requests, Look(req) \/ ExchangeMtu(req) \/ Prepare(req) \/ Malformed(req)
      PROVE  WrittenIsRead' /\ Wholly(last'.req)
  <2>1. last'.req = req
    <3>1. Crashed(req) \/ \E out : Sent(req, out)
      BY <1>3, Zenon DEF Look, ExchangeMtu, Prepare, Malformed
    <3> QED
      BY <3>1 DEF Sent, Crashed
  <2>2. UNCHANGED <<db, flags>>
    BY <1>3, Zenon DEF Look, ExchangeMtu, Prepare, Malformed
  <2>3. req.op # "WRITE" /\ req.op # "EXEC_WRITE"
    <3>1. \/ req.op \in {"READ_BY_GROUP", "READ_BY_TYPE", "FIND_INFO", "FIND_BY_TYPE_VALUE",
                        "READ_MULT", "MTU", "PREP_WRITE", "MALFORMED"}
          \/ req.op \in {"READ", "READ_BLOB"}
      BY <1>3, Zenon DEF Look, ExchangeMtu, Prepare, Malformed
    <3> QED
      BY <3>1
  <2>4. Wholly(req)
    BY <2>2, <2>3, Zenon DEF Wholly
  <2> QED
    BY <2>1, <2>3, <2>4, NoWrite
<1> QED
  BY <1>1, <1>2, <1>3, Zenon DEF Next

\* Whatever is prepared and written, in whatever order, a write is made as a
\* whole or not at all. value_len counts to LenMod; the MTU has as many bits,
\* so that no Write Request is that long.
THEOREM WritesHold ==
    ASSUME \A req \in Requests : req.op = "WRITE" => Len(req.value) < LenMod
    PROVE  Spec => WritesWhole
<1>1. ASSUME State, State', Prepared, [Next]_vars
      PROVE  [WrittenIsRead' /\ Wholly(last'.req)]_vars
  BY <1>1, StepWholly
<1>2. [][WrittenIsRead' /\ Wholly(last'.req)]_vars => WritesWhole
  BY PTL DEF WritesWhole, Wholly
<1>3. Spec => []State
  BY StateHolds
<1>4. Init => Prepared
  BY InitPrepared
<1>5. ASSUME State, Prepared, [Next]_vars PROVE Prepared'
  BY <1>5, PreparedKept
<1> QED
  BY <1>1, <1>2, <1>3, <1>4, <1>5, PTL DEF Spec

=============================================================================
