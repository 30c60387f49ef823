------------------------- MODULE AttHandlersProofs -------------------------
(***************************************************************************)
(* Proofs about AttHandlers: what callbacks may do, hooks that run once,   *)
(* and walks that miss nobody.                                             *)
(***************************************************************************)
EXTENDS AttHandlers, FiniteSetsExt, TLAPS, SequenceTheorems,
        WellFoundedInduction

-----------------------------------------------------------------------------
(* Numbers and sequences *)

\* A set of numbers that is not empty has a least one.
LEMMA Least ==
    ASSUME NEW T, T \subseteq Nat, T # {}
    PROVE  \E x \in T : \A y \in T : x <= y
<1>1. PICK x \in T : \A y \in T : ~(<<y, x>> \in OpToRel(<, Nat))
  BY NatLessThanWellFounded, WFMin
<1>2. \A y \in T : ~(y < x)
  BY <1>1 DEF OpToRel
<1> QED
  BY <1>2

\* Min finds it.
LEMMA MinIsLeast ==
    ASSUME NEW T, T \subseteq Nat, T # {}
    PROVE  Min(T) \in T /\ \A y \in T : Min(T) <= y
BY Least DEF Min

\* What RemoveAt leaves, element by element.
LEMMA RemoveAtElements ==
    ASSUME NEW S, NEW q \in Seq(S), NEW i \in DOMAIN q
    PROVE  /\ RemoveAt(q, i) \in Seq(S)
           /\ DOMAIN RemoveAt(q, i) = 1 .. Len(q) - 1
           /\ \A k \in 1 .. Len(q) - 1 :
                 RemoveAt(q, i)[k] = IF k < i THEN q[k] ELSE q[k + 1]
<1> DEFINE l == SubSeq(q, 1, i - 1)
           r == SubSeq(q, i + 1, Len(q))
           n == RemoveAt(q, i)
<1>1. DOMAIN q = 1 .. Len(q) /\ Len(q) \in Nat /\ i \in 1 .. Len(q)
  BY LenProperties
<1>2. /\ l \in Seq(S) /\ Len(l) = i - 1
      /\ \A k \in 1 .. i - 1 : l[k] = q[k]
  BY <1>1, SubSeqProperties, ElementOfSeq
<1>3. /\ r \in Seq(S) /\ Len(r) = Len(q) - i
      /\ \A k \in 1 .. Len(q) - i : r[k] = q[k + i]
  BY <1>1, SubSeqProperties, ElementOfSeq
<1>4. n = l \o r
  BY DEF RemoveAt
<1> HIDE DEF l, r, n
<1>5. /\ n \in Seq(S) /\ Len(n) = Len(l) + Len(r)
      /\ \A k \in 1 .. Len(l) + Len(r) :
            n[k] = IF k <= Len(l) THEN l[k] ELSE r[k - Len(l)]
  BY <1>2, <1>3, <1>4, ConcatProperties
<1>6. DOMAIN n = 1 .. Len(q) - 1
  BY <1>1, <1>2, <1>3, <1>5, LenProperties
<1>7. ASSUME NEW k \in DOMAIN n
      PROVE  n[k] = IF k < i THEN q[k] ELSE q[k + 1]
  <2>1. k \in 1 .. Len(l) + Len(r)
    BY <1>1, <1>2, <1>3, <1>6
  <2>2. n[k] = IF k <= i - 1 THEN l[k] ELSE r[k - (i - 1)]
    BY <2>1, <1>2, <1>5
  <2>3. CASE k < i
    BY <2>1, <2>2, <2>3, <1>1, <1>2
  <2>4. CASE k >= i
    <3>1. k - (i - 1) \in 1 .. Len(q) - i
      BY <2>4, <1>1, <1>6
    <3>2. k - (i - 1) + i = k + 1
      BY <1>1, <1>6
    <3>3. r[k - (i - 1)] = q[k - (i - 1) + i]
      BY <3>1, <1>3
    <3>4. ~(k <= i - 1) /\ ~(k < i)
      BY <2>4, <1>1, <1>6
    <3> QED
      BY <2>2, <3>2, <3>3, <3>4
  <2> QED
    BY <2>3, <2>4, <1>1, <1>6
<1> QED
  BY <1>5, <1>6, <1>7 DEF n

-----------------------------------------------------------------------------
(* The inductive invariant *)

Kinds == {"notify", "ops", "disconn", "series", "one"}

\* What a series has still to do: bt_att_unregister_all, the end of
\* handle_notify or of disconnect_cb, and the end of the bearer
Alls == {<<>>, <<"disconn">>, <<"notify", "disconn">>}
Unrefs == {<<"unref">>, <<"disconn", "unref">>, <<"notify", "disconn", "unref">>}
Frees == {<<"free">>, <<"disconn", "free">>, <<"notify", "disconn", "free">>}

FrameType ==
    [kind : Kinds, at : Ids \cup {None, SomeOp}, op : Received \cup {"none"},
     entry : Ids \cup {None}, rest : Seq(Ids), todo : Alls \cup Unrefs \cup Frees,
     due : SUBSET Ids]

AttType ==
    [notify : Seq(Ids), disconn : Seq(Ids), for : [Ids -> Handled \cup {Disconn, "none"}],
     removed : SUBSET Ids, next_reg_id : 1 .. MaxIds + 1,
     io : BOOLEAN, held : BOOLEAN, freed : BOOLEAN]

Types ==
    /\ att \in AttType /\ stack \in Seq(FrameType) /\ crashed \in BOOLEAN
    /\ hooks \in [Ids -> Nat] /\ told \in [Ids -> Nat]
    /\ given \subseteq Ids /\ misused \in BOOLEAN

\* the functions under way, from the one the loop called
Levels(s) == 1 .. Len(s)

\* bt_att_free has run, or will when the series on top of the stack is over
Ending(a, s) == a.freed \/ \E i \in Levels(s) : s[i].todo \in Frees

\* The functions of the loop are at the bottom of the stack; where the bearer
\* ends nobody holds it.
FrameFits(a, s, i) ==
    /\ s[i].kind \in {"notify", "ops", "disconn"} \/ s[i].todo \in Unrefs => i = 1
    /\ s[i].kind # "series" => s[i].todo = <<>> /\ s[i].rest = <<>>
    /\ s[i].todo \in Frees => i = Len(s)
    /\ Ending(a, s) => s[i].kind \notin {"notify", "disconn"} /\ s[i].todo \notin Unrefs
    /\ s[i].todo = <<"disconn", "free">> => a.notify = <<>>
    /\ s[i].todo = <<"free">> => a.notify = <<>> /\ a.disconn = <<>>
    /\ s[i].kind \in {"ops", "disconn"} \/ s[i].todo \in Unrefs \ {<<"unref">>} => ~a.io

Shape(a, s) ==
    /\ \A i \in Levels(s) : FrameFits(a, s, i)
    /\ Ending(a, s) => ~a.held
    /\ a.freed => a.notify = <<>> /\ a.disconn = <<>>

Distinct(list) == \A i, j \in DOMAIN list : list[i] = list[j] => i = j

\* Each handler is in one place, and its hook has run when it is in none
Placed(a, s) ==
    /\ Distinct(a.notify) /\ Distinct(a.disconn)
    /\ ToSet(a.notify) \cap ToSet(a.disconn) = {}
    /\ \A i \in Levels(s) : /\ Distinct(s[i].rest)
                            /\ ToSet(s[i].rest) \cap ToSet(a.notify) = {}
                            /\ ToSet(s[i].rest) \cap ToSet(a.disconn) = {}
    /\ \A i, j \in Levels(s) : i # j => ToSet(s[i].rest) \cap ToSet(s[j].rest) = {}

Hooked(a, s, h) ==
    \A id \in Ids :
        h[id] = IF \/ id >= a.next_reg_id
                   \/ id \in ToSet(a.notify) \/ id \in ToSet(a.disconn)
                   \/ \E i \in Levels(s) : id \in ToSet(s[i].rest)
                THEN 0 ELSE 1

Known(a, s, g) ==
    /\ \A id \in ToSet(a.notify) \cup ToSet(a.disconn) \cup g : id < a.next_reg_id
    /\ \A i \in Levels(s) : /\ \A id \in ToSet(s[i].rest) : id < a.next_reg_id
                            /\ s[i].entry < a.next_reg_id
    /\ ToSet(a.notify) \cap g = {}
    /\ ToSet(a.disconn) \cap g \subseteq a.removed
    /\ a.removed \subseteq g

\* what is still to come of a walk that goes on with e
Behind(list, e) ==
    {x \in ToSet(list) : \E i, j \in DOMAIN list : i <= j /\ list[i] = e /\ list[j] = x}

Entered(list, e) == e = None \/ e \in ToSet(list) \/ list = <<>>

\* With callbacks that keep the contract no walk stands at a freed entry and
\* nothing is left to do with a freed bearer.
Contract(a, s, c, m) ==
    /\ \A i \in Levels(s) : s[i].kind = "disconn" => Entered(a.disconn, s[i].entry)
    /\ ~m => /\ ~c
             /\ \A i \in Levels(s) : s[i].kind = "notify" => Entered(a.notify, s[i].entry)
             /\ Ending(a, s) =>
                   \A i \in Levels(s) : /\ s[i].kind \in {"series", "one"}
                                        /\ s[i].todo # <<>> => i = Len(s) /\ s[i].todo \in Frees
             /\ a.freed => \A i \in Levels(s) : s[i].todo = <<>>

\* Who has been told of the disconnection
Telling(a, s, t, g) ==
    /\ \A id \in Ids : t[id] <= 1
    /\ a.io => \A id \in Ids : t[id] = 0
    /\ \A i \in Levels(s) : s[i].kind = "ops" => \A id \in Ids : t[id] = 0
    /\ \A i \in Levels(s) : s[i].kind = "disconn" =>
          \A id \in ToSet(a.disconn) :
              IF id \in Behind(a.disconn, s[i].entry) THEN t[id] = 0
              ELSE t[id] = 1 \/ id \in g
    /\ ~Ending(a, s) => \A id \in 1 .. a.next_reg_id - 1 :
          a.for[id] = Disconn => id \in ToSet(a.disconn) \/ id \in g \/ t[id] = 1
    /\ ~a.io /\ (\A i \in Levels(s) : s[i].kind \notin {"ops", "disconn"}) =>
          \A id \in 1 .. a.next_reg_id - 1 : a.for[id] = Disconn => id \in g \/ t[id] = 1

\* Whom a PDU is still to be offered to
Offering(a, s, g) ==
    \A i \in Levels(s) : s[i].kind = "notify" =>
        /\ s[i].due \subseteq g \cup ToSet(a.notify)
        /\ s[i].entry = None => s[i].due \subseteq g
        /\ s[i].entry \in ToSet(a.notify) =>
              s[i].due \subseteq g \cup Behind(a.notify, s[i].entry)

HandlersInv ==
    /\ Types /\ Shape(att, stack) /\ Placed(att, stack) /\ Hooked(att, stack, hooks)
    /\ Known(att, stack, given) /\ Contract(att, stack, crashed, misused)
    /\ Telling(att, stack, told, given) /\ Offering(att, stack, given)

-----------------------------------------------------------------------------
(* Lists *)

\* The elements of a list by their places.
LEMMA Elements ==
    ASSUME NEW S, NEW list \in Seq(S)
    PROVE  /\ Len(list) \in Nat /\ DOMAIN list = 1 .. Len(list)
           /\ \A k \in 1 .. Len(list) : list[k] \in S /\ list[k] \in ToSet(list)
           /\ \A x : x \in ToSet(list) <=> \E k \in 1 .. Len(list) : list[k] = x
           /\ ToSet(list) \subseteq S
           /\ list = <<>> <=> Len(list) = 0
           /\ list = <<>> <=> ToSet(list) = {}
<1>1. Len(list) \in Nat /\ DOMAIN list = 1 .. Len(list)
  BY LenProperties
<1>2. \A k \in 1 .. Len(list) : list[k] \in S
  BY ElementOfSeq
<1>3. list = <<>> <=> Len(list) = 0
  BY EmptySeq
<1>4. \A x : x \in ToSet(list) <=> \E k \in 1 .. Len(list) : list[k] = x
  BY <1>1 DEF ToSet
<1>5. Len(list) # 0 => 1 \in 1 .. Len(list)
  BY <1>1
<1> QED
  BY <1>1, <1>2, <1>3, <1>4, <1>5

\* Nothing is in an empty list.
LEMMA EmptyList ==
    /\ <<>> \in Seq(Ids) /\ Distinct(<<>>) /\ ToSet(<<>>) = {}
    /\ \A e : Behind(<<>>, e) = {}
<1>1. <<>> \in Seq(Ids) /\ Len(<<>>) = 0
  BY EmptySeq
<1>2. DOMAIN <<>> = {}
  BY <1>1, Elements
<1>3. ToSet(<<>>) = {}
  BY <1>2 DEF ToSet
<1> QED
  BY <1>1, <1>2, <1>3 DEF Distinct, Behind

\* What Behind says, by places.
LEMMA BehindIs ==
    ASSUME NEW list \in Seq(Ids), NEW e, NEW x
    PROVE  x \in Behind(list, e)
             <=> \E i, j \in 1 .. Len(list) : i <= j /\ list[i] = e /\ list[j] = x
BY Elements DEF Behind

\* A walk starts with all of the list before it.
LEMMA FirstIs ==
    ASSUME NEW list \in Seq(Ids)
    PROVE  /\ FirstOf(list) \in Ids \cup {None} /\ Entered(list, FirstOf(list))
           /\ FirstOf(list) = None => list = <<>>
           /\ FirstOf(list) # None => FirstOf(list) \in ToSet(list)
           /\ Behind(list, FirstOf(list)) = ToSet(list)
<1>1. CASE list = <<>>
  BY <1>1, EmptyList DEF FirstOf, Entered
<1>2. CASE list # <<>>
  <2>1. Len(list) \in Nat /\ 1 \in 1 .. Len(list) /\ FirstOf(list) = list[1]
    BY <1>2, Elements, HeadTailProperties DEF FirstOf
  <2>2. list[1] \in Ids /\ list[1] \in ToSet(list) /\ list[1] # None
    BY <2>1, Elements, HandlerConstants DEF Ids, None
  <2>3. ASSUME NEW x \in ToSet(list) PROVE x \in Behind(list, list[1])
    <3>1. PICK k \in 1 .. Len(list) : list[k] = x
      BY <2>3, Elements
    <3>2. 1 <= k
      BY <3>1, <2>1
    <3> QED
      BY <3>1, <3>2, <2>1, BehindIs
  <2> QED
    BY <1>2, <2>1, <2>2, <2>3 DEF Entered, Behind
<1> QED
  BY <1>1, <1>2

\* A step of a walk leaves what was behind it.
LEMMA NextIs ==
    ASSUME NEW list \in Seq(Ids), Distinct(list), NEW e \in ToSet(list)
    PROVE  /\ NextOf(list, e) \in Ids \cup {None} /\ Entered(list, NextOf(list, e))
           /\ e \in Behind(list, e)
           /\ Behind(list, NextOf(list, e)) = Behind(list, e) \ {e}
           /\ NextOf(list, e) # None => NextOf(list, e) \in ToSet(list)
<1> DEFINE n == Len(list)
           next == NextOf(list, e)
<1>1. /\ n \in Nat /\ DOMAIN list = 1 .. n
      /\ \A k \in 1 .. n : list[k] \in Ids /\ list[k] \in ToSet(list)
      /\ \A j, k \in 1 .. n : list[j] = list[k] => j = k
  BY Elements DEF Distinct
<1>2. PICK i \in 1 .. n : list[i] = e
  BY Elements
<1>3. (CHOOSE k \in DOMAIN list : list[k] = e) = i
  BY <1>1, <1>2
<1>4. next = IF i = n THEN None ELSE list[i + 1]
  <2>1. next = LET j == CHOOSE k \in DOMAIN list : list[k] = e
               IN IF j = Len(list) THEN None ELSE list[j + 1]
    BY DEF NextOf
  <2> QED
    BY <1>3, <2>1
<1>5. None \notin Ids
  BY HandlerConstants DEF Ids, None
<1> HIDE DEF n, next
<1>6. CASE i = n
  <2>1. next = None
    BY <1>4, <1>6
  <2>2. \A x : x \notin Behind(list, next)
    BY <2>1, <1>1, <1>5, BehindIs DEF n
  <2>3. \A x : x \in Behind(list, e) <=> x = e
    <3>1. ASSUME NEW x, x \in Behind(list, e) PROVE x = e
      <4>1. PICK j, k \in 1 .. n : j <= k /\ list[j] = e /\ list[k] = x
        BY <3>1, BehindIs DEF n
      <4>2. j = i /\ k = n
        BY <4>1, <1>1, <1>2, <1>6
      <4> QED
        BY <4>1, <4>2, <1>2, <1>6
    <3>2. e \in Behind(list, e)
      BY <1>1, <1>2, BehindIs DEF n
    <3> QED
      BY <3>1, <3>2
  <2> QED
    BY <2>1, <2>2, <2>3 DEF Entered, next
<1>7. CASE i # n
  <2>1. i + 1 \in 1 .. n /\ next = list[i + 1] /\ next \in Ids /\ next \in ToSet(list)
    BY <1>1, <1>2, <1>4, <1>7
  <2>2. ASSUME NEW x PROVE x \in Behind(list, next) <=> x \in Behind(list, e) /\ x # e
    <3>1. ASSUME x \in Behind(list, next) PROVE x \in Behind(list, e) /\ x # e
      <4>1. PICK j, k \in 1 .. n : j <= k /\ list[j] = next /\ list[k] = x
        BY <3>1, BehindIs DEF n
      <4>2. j = i + 1
        BY <4>1, <2>1, <1>1
      <4>3. i <= k /\ i # k
        BY <4>1, <4>2, <1>1, <1>2
      <4>4. x # e
        BY <4>1, <4>3, <1>1, <1>2
      <4> QED
        BY <4>1, <4>3, <4>4, <1>2, BehindIs DEF n
    <3>2. ASSUME x \in Behind(list, e), x # e PROVE x \in Behind(list, next)
      <4>1. PICK j, k \in 1 .. n : j <= k /\ list[j] = e /\ list[k] = x
        BY <3>2, BehindIs DEF n
      <4>2. j = i /\ k # i
        BY <4>1, <1>1, <1>2, <3>2
      <4>3. i + 1 <= k
        BY <4>1, <4>2, <1>1, <1>2
      <4> QED
        BY <4>1, <4>3, <2>1, BehindIs DEF n
    <3> QED
      BY <3>1, <3>2
  <2>3. e \in Behind(list, e)
    BY <1>1, <1>2, BehindIs DEF n
  <2> QED
    BY <2>1, <2>2, <2>3 DEF Entered, next
<1> QED
  BY <1>6, <1>7

\* A handler is registered at the end of its list.
LEMMA AppendIs ==
    ASSUME NEW list \in Seq(Ids), Distinct(list), NEW id \in Ids, id \notin ToSet(list)
    PROVE  /\ Append(list, id) \in Seq(Ids) /\ Distinct(Append(list, id))
           /\ ToSet(Append(list, id)) = ToSet(list) \cup {id}
           /\ Append(list, id) # <<>>
           /\ \A e : Behind(list, e) \subseteq Behind(Append(list, id), e)
<1> DEFINE a == Append(list, id)
           n == Len(list)
<1>1. /\ n \in Nat /\ DOMAIN list = 1 .. n
      /\ \A k \in 1 .. n : list[k] \in Ids /\ list[k] \in ToSet(list)
      /\ \A j, k \in 1 .. n : list[j] = list[k] => j = k
  BY Elements DEF Distinct
<1>2. a \in Seq(Ids) /\ Len(a) = n + 1 /\ a[n + 1] = id
      /\ \A k \in 1 .. n : a[k] = list[k]
  BY AppendProperties
<1> HIDE DEF a, n
<1>3. \A k \in 1 .. n + 1 : k \in 1 .. n \/ k = n + 1
  BY <1>1
<1>4. \A k \in 1 .. n : k \in 1 .. n + 1
  BY <1>1
<1>5. DOMAIN a = 1 .. n + 1 /\ n + 1 \in 1 .. n + 1
  BY <1>1, <1>2, Elements
<1>6. Distinct(a)
  BY <1>1, <1>2, <1>3, <1>5 DEF Distinct
<1>7. ToSet(a) = ToSet(list) \cup {id}
  <2>1. \A x : x \in ToSet(a) <=> \E k \in 1 .. n + 1 : a[k] = x
    BY <1>2, Elements
  <2>2. \A x : x \in ToSet(list) <=> \E k \in 1 .. n : list[k] = x
    BY Elements DEF n
  <2>3. ASSUME NEW x PROVE x \in ToSet(a) <=> x \in ToSet(list) \/ x = id
    BY <2>1, <2>2, <1>2, <1>3, <1>4, <1>5
  <2> QED
    BY <2>3
<1>8. ASSUME NEW e, NEW x \in Behind(list, e) PROVE x \in Behind(a, e)
  <2>1. PICK j, k \in 1 .. n : j <= k /\ list[j] = e /\ list[k] = x
    BY <1>8, BehindIs DEF n
  <2>2. j \in 1 .. Len(a) /\ k \in 1 .. Len(a) /\ a[j] = e /\ a[k] = x
    BY <2>1, <1>2, <1>4
  <2> QED
    BY <2>1, <2>2, <1>2, BehindIs
<1>9. a # <<>>
  BY <1>7, EmptyList
<1> QED
  BY <1>2, <1>6, <1>7, <1>8, <1>9 DEF a

\* queue_remove_if takes the handler out of its list and leaves the order.
LEMMA RemoveFirstIs ==
    ASSUME NEW list \in Seq(Ids), Distinct(list), NEW id \in ToSet(list)
    PROVE  /\ RemoveFirst(list, id) \in Seq(Ids) /\ Distinct(RemoveFirst(list, id))
           /\ ToSet(RemoveFirst(list, id)) = ToSet(list) \ {id}
           /\ \A e : e # id => Behind(list, e) \ {id} \subseteq Behind(RemoveFirst(list, id), e)
<1> DEFINE n == Len(list)
           r == RemoveFirst(list, id)
           places == {k \in 1 .. n : list[k] = id}
<1>1. /\ n \in Nat /\ DOMAIN list = 1 .. n
      /\ \A k \in 1 .. n : list[k] \in Ids /\ list[k] \in ToSet(list)
      /\ \A j, k \in 1 .. n : list[j] = list[k] => j = k
  BY Elements DEF Distinct
<1>2. PICK i \in 1 .. n : list[i] = id
  BY Elements
<1>3. Min(places) = i
  <2>1. places \subseteq Nat /\ places # {} /\ \A k \in places : k = i
    BY <1>1, <1>2
  <2> QED
    BY <2>1, MinIsLeast
<1>4. r = RemoveAt(list, i)
  BY <1>2, <1>3 DEF RemoveFirst, SelectInSeq
<1>5. /\ r \in Seq(Ids) /\ DOMAIN r = 1 .. n - 1
      /\ \A k \in 1 .. n - 1 : r[k] = IF k < i THEN list[k] ELSE list[k + 1]
  BY <1>1, <1>2, <1>4, RemoveAtElements
<1> HIDE DEF n, r, places
<1> DEFINE from(k) == IF k < i THEN k ELSE k + 1
<1>6. \A k \in 1 .. n - 1 : from(k) \in 1 .. n /\ from(k) # i /\ r[k] = list[from(k)]
  BY <1>1, <1>2, <1>5
<1>7. \A j, k \in 1 .. n - 1 : from(j) = from(k) => j = k
  BY <1>1, <1>2
<1>8. \A k \in 1 .. n : k # i => LET m == IF k < i THEN k ELSE k - 1
                                 IN  m \in 1 .. n - 1 /\ from(m) = k
  BY <1>1, <1>2
<1>9. Distinct(r)
  BY <1>1, <1>5, <1>6, <1>7 DEF Distinct
<1>10. ToSet(r) = ToSet(list) \ {id}
  <2>1. \A x : x \in ToSet(r) <=> \E k \in 1 .. n - 1 : r[k] = x
    BY <1>5 DEF ToSet
  <2>2. \A x : x \in ToSet(list) <=> \E k \in 1 .. n : list[k] = x
    BY Elements DEF n
  <2>3. ASSUME NEW x, x \in ToSet(r) PROVE x \in ToSet(list) /\ x # id
    BY <2>1, <2>2, <2>3, <1>1, <1>2, <1>6
  <2>4. ASSUME NEW x, x \in ToSet(list), x # id PROVE x \in ToSet(r)
    <3>1. PICK k \in 1 .. n : list[k] = x
      BY <2>2, <2>4
    <3>2. k # i
      BY <3>1, <2>4, <1>2
    <3> QED
      BY <3>1, <3>2, <2>1, <1>6, <1>8
  <2> QED
    BY <2>3, <2>4
<1>11. ASSUME NEW e, e # id, NEW x \in Behind(list, e) \ {id} PROVE x \in Behind(r, e)
  <2>1. PICK j, k \in 1 .. n : j <= k /\ list[j] = e /\ list[k] = x
    BY <1>11, BehindIs DEF n
  <2>2. j # i /\ k # i
    BY <2>1, <1>2, <1>11
  <2>3. PICK l, m \in 1 .. n - 1 : from(l) = j /\ from(m) = k /\ l <= m
    <3>1. (IF j < i THEN j ELSE j - 1) <= (IF k < i THEN k ELSE k - 1)
      BY <2>1, <2>2, <1>1, <1>2
    <3> QED
      BY <3>1, <2>1, <2>2, <1>8
  <2>4. r[l] = e /\ r[m] = x
    BY <2>1, <2>3, <1>6
  <2>5. Len(r) = n - 1
    <3>1. Len(r) \in Nat /\ DOMAIN r = 1 .. Len(r)
      BY <1>5, LenProperties
    <3>2. n - 1 \in Nat
      BY <1>1, <1>2
    <3>3. 1 .. Len(r) = 1 .. n - 1
      BY <3>1, <1>5
    <3> HIDE DEF from
    <3> QED
      BY <3>1, <3>2, <3>3
  <2> QED
    BY <2>3, <2>4, <2>5, <1>5, BehindIs
<1> QED
  BY <1>5, <1>9, <1>10, <1>11 DEF r

\* queue_remove_all hands out the first of what it took.
LEMMA HeadTailIs ==
    ASSUME NEW list \in Seq(Ids), Distinct(list), list # <<>>
    PROVE  /\ Head(list) \in ToSet(list) /\ Head(list) \in Ids
           /\ Tail(list) \in Seq(Ids) /\ Distinct(Tail(list))
           /\ ToSet(Tail(list)) = ToSet(list) \ {Head(list)}
<1> DEFINE n == Len(list)
           t == Tail(list)
<1>1. /\ n \in Nat /\ n # 0 /\ DOMAIN list = 1 .. n
      /\ \A k \in 1 .. n : list[k] \in Ids /\ list[k] \in ToSet(list)
      /\ \A j, k \in 1 .. n : list[j] = list[k] => j = k
  BY Elements DEF Distinct
<1>2. /\ Head(list) = list[1] /\ t \in Seq(Ids) /\ Len(t) = n - 1
      /\ \A k \in 1 .. n - 1 : t[k] = list[k + 1]
  BY HeadTailProperties
<1> HIDE DEF n, t
<1>3. DOMAIN t = 1 .. n - 1 /\ 1 \in 1 .. n
  BY <1>1, <1>2, Elements
<1>4. \A k \in 1 .. n - 1 : k + 1 \in 1 .. n /\ k + 1 # 1
  BY <1>1
<1>5. \A k \in 1 .. n : k # 1 => k - 1 \in 1 .. n - 1 /\ (k - 1) + 1 = k
  BY <1>1
<1>6. Distinct(t)
  <2> SUFFICES ASSUME NEW j \in 1 .. n - 1, NEW k \in 1 .. n - 1, t[j] = t[k] PROVE j = k
    BY <1>3 DEF Distinct
  <2>1. j + 1 = k + 1
    BY <1>1, <1>2, <1>4
  <2> QED
    BY <2>1
<1>7. ToSet(t) = ToSet(list) \ {list[1]}
  <2>1. \A x : x \in ToSet(t) <=> \E k \in 1 .. n - 1 : t[k] = x
    BY <1>3 DEF ToSet
  <2>2. \A x : x \in ToSet(list) <=> \E k \in 1 .. n : list[k] = x
    BY Elements DEF n
  <2>3. ASSUME NEW x, x \in ToSet(t) PROVE x \in ToSet(list) /\ x # list[1]
    BY <2>1, <2>2, <2>3, <1>1, <1>2, <1>3, <1>4
  <2>4. ASSUME NEW x, x \in ToSet(list), x # list[1] PROVE x \in ToSet(t)
    <3>1. PICK k \in 1 .. n : list[k] = x
      BY <2>2, <2>4
    <3>2. k # 1
      BY <3>1, <2>4
    <3>3. k - 1 \in 1 .. n - 1 /\ t[k - 1] = x
      BY <3>1, <3>2, <1>2, <1>5
    <3> QED
      BY <3>3, <2>1
  <2> QED
    BY <2>3, <2>4
<1> QED
  BY <1>1, <1>2, <1>3, <1>6, <1>7 DEF t

-----------------------------------------------------------------------------
(* Frames and the stack *)

Todos == Alls \cup Unrefs \cup Frees

\* Short tuples.
LEMMA Tuples ==
    ASSUME NEW x, NEW y, NEW z, NEW u, NEW v, NEW w
    PROVE  /\ <<x>> # <<>> /\ <<x, y>> # <<>> /\ <<x, y, z>> # <<>>
           /\ <<x>> # <<u, v>> /\ <<x>> # <<u, v, w>> /\ <<x, y>> # <<u, v, w>>
           /\ <<x>> = <<u>> <=> x = u
           /\ <<x, y>> = <<u, v>> <=> x = u /\ y = v
           /\ <<x, y, z>> = <<u, v, w>> <=> x = u /\ y = v /\ z = w
           /\ Head(<<x>>) = x /\ Head(<<x, y>>) = x /\ Head(<<x, y, z>>) = x
           /\ Tail(<<x>>) = <<>> /\ Tail(<<x, y>>) = <<y>> /\ Tail(<<x, y, z>>) = <<y, z>>
<1>1. Len(<<>>) = 0 /\ Len(<<x>>) = 1 /\ Len(<<x, y>>) = 2 /\ Len(<<x, y, z>>) = 3
      /\ Len(<<u, v>>) = 2 /\ Len(<<u, v, w>>) = 3
  OBVIOUS
<1>2. /\ <<x>> # <<>> /\ <<x, y>> # <<>> /\ <<x, y, z>> # <<>>
      /\ <<x>> # <<u, v>> /\ <<x>> # <<u, v, w>> /\ <<x, y>> # <<u, v, w>>
  BY <1>1
<1>3. /\ <<x>> = <<u>> <=> x = u
      /\ <<x, y>> = <<u, v>> <=> x = u /\ y = v
      /\ <<x, y, z>> = <<u, v, w>> <=> x = u /\ y = v /\ z = w
  OBVIOUS
<1>4. Head(<<x>>) = x /\ Head(<<x, y>>) = x /\ Head(<<x, y, z>>) = x
  OBVIOUS
<1>5. Tail(<<x>>) = <<>>
  OBVIOUS
<1>6. Tail(<<x, y>>) = <<y>>
  OBVIOUS
<1>7. Tail(<<x, y, z>>) = <<y, z>>
  OBVIOUS
<1> QED
  BY <1>2, <1>3, <1>4, <1>5, <1>6, <1>7

\* What a function has still to do, by the kind of the function.
LEMMA TodoIs ==
    ASSUME NEW todo \in Todos
    PROVE  /\ "unref" \in ToSet(todo) <=> todo \in Unrefs
           /\ ToSet(todo) \subseteq Lists <=> todo \in Alls
           /\ todo \in Alls => todo \notin Unrefs /\ todo \notin Frees
           /\ todo \in Unrefs => todo \notin Alls /\ todo \notin Frees /\ todo # <<>>
           /\ todo \in Frees => todo \notin Alls /\ todo \notin Unrefs /\ todo # <<>>
<1>1. ToSet(<<>>) = {}
  BY EmptyList
<1>2. ASSUME NEW x, NEW y, NEW z
      PROVE  ToSet(<<x>>) = {x} /\ ToSet(<<x, y>>) = {x, y} /\ ToSet(<<x, y, z>>) = {x, y, z}
  <2>1. ToSet(<<x>>) = {x}
    BY DEF ToSet
  <2>2. DOMAIN <<x, y>> = 1 .. 2
    OBVIOUS
  <2>3. DOMAIN <<x, y, z>> = 1 .. 3
    OBVIOUS
  <2>4. ToSet(<<x, y>>) = {x, y}
    BY <2>2 DEF ToSet
  <2>5. ToSet(<<x, y, z>>) = {x, y, z}
    BY <2>3 DEF ToSet
  <2> QED
    BY <2>1, <2>4, <2>5
<1>3. ASSUME NEW tail \in {"unref", "free"}
      PROVE  LET E == {<<tail>>, <<"disconn", tail>>, <<"notify", "disconn", tail>>}
             IN  \A t \in E : /\ tail \in ToSet(t) /\ t # <<>>
                              /\ ToSet(t) \subseteq Lists \cup {tail}
  <2>1. ToSet(<<tail>>) = {tail}
    BY <1>2
  <2>3. ToSet(<<"disconn", tail>>) = {"disconn", tail}
    BY <1>2
  <2>4. ToSet(<<"notify", "disconn", tail>>) = {"notify", "disconn", tail}
    <3>1. DOMAIN <<"notify", "disconn", tail>> = 1 .. 3
      OBVIOUS
    <3> QED
      BY <3>1 DEF ToSet
  <2>2. <<tail>> # <<>> /\ <<"disconn", tail>> # <<>> /\ <<"notify", "disconn", tail>> # <<>>
    BY Tuples
  <2> QED
    BY <2>1, <2>2, <2>3, <2>4 DEF Lists
<1>4. \A t \in Alls : ToSet(t) \subseteq Lists
  <2>1. ToSet(<<"disconn">>) = {"disconn"} /\ ToSet(<<"notify", "disconn">>) = {"notify", "disconn"}
    BY <1>2
  <2> QED
    BY <1>1, <2>1 DEF Alls, Lists
<1>5. \A t \in Unrefs : "unref" \in ToSet(t) /\ "free" \notin ToSet(t) /\ t # <<>>
  BY <1>3 DEF Unrefs, Lists
<1>6. \A t \in Frees : "free" \in ToSet(t) /\ "unref" \notin ToSet(t) /\ t # <<>>
  BY <1>3 DEF Frees, Lists
<1>7. "unref" \notin Lists /\ "free" \notin Lists
  BY DEF Lists
<1> QED
  BY <1>4, <1>5, <1>6, <1>7 DEF Todos

\* The next thing to do, and what is left then.
LEMMA TodoNext ==
    ASSUME NEW todo \in Todos, todo # <<>>
    PROVE  /\ Tail(todo) \in Todos
           /\ Head(todo) \in Lists => /\ todo \in Alls <=> Tail(todo) \in Alls
                                      /\ todo \in Unrefs <=> Tail(todo) \in Unrefs
                                      /\ todo \in Frees <=> Tail(todo) \in Frees
           /\ Head(todo) = "unref" <=> todo = <<"unref">>
           /\ Head(todo) = "free" <=> todo = <<"free">>
           /\ todo \in {<<"unref">>, <<"free">>} => Tail(todo) = <<>>
           /\ todo \in Frees /\ Head(todo) = "disconn" => todo = <<"disconn", "free">>
           /\ Tail(todo) = <<"disconn", "free">> => Head(todo) = "notify"
           /\ Tail(todo) = <<"free">> => todo = <<"disconn", "free">>
           /\ Head(todo) \in Lists \cup {"unref", "free"}
<1>1. CASE todo \in Alls
  <2>1. CASE todo = <<"disconn">>
    BY <2>1, Tuples DEF Alls, Unrefs, Frees, Lists, Todos
  <2>2. CASE todo = <<"notify", "disconn">>
    BY <2>2, Tuples DEF Alls, Unrefs, Frees, Lists, Todos
  <2> QED
    BY <1>1, <2>1, <2>2 DEF Alls
<1>2. CASE todo \in Unrefs
  <2>1. CASE todo = <<"unref">>
    BY <2>1, Tuples DEF Alls, Unrefs, Frees, Lists, Todos
  <2>2. CASE todo = <<"disconn", "unref">>
    BY <2>2, Tuples DEF Alls, Unrefs, Frees, Lists, Todos
  <2>3. CASE todo = <<"notify", "disconn", "unref">>
    BY <2>3, Tuples DEF Alls, Unrefs, Frees, Lists, Todos
  <2> QED
    BY <1>2, <2>1, <2>2, <2>3 DEF Unrefs
<1>3. CASE todo \in Frees
  <2>1. CASE todo = <<"free">>
    BY <2>1, Tuples DEF Alls, Unrefs, Frees, Lists, Todos
  <2>2. CASE todo = <<"disconn", "free">>
    BY <2>2, Tuples DEF Alls, Unrefs, Frees, Lists, Todos
  <2>3. CASE todo = <<"notify", "disconn", "free">>
    BY <2>3, Tuples DEF Alls, Unrefs, Frees, Lists, Todos
  <2> QED
    BY <1>3, <2>1, <2>2, <2>3 DEF Frees
<1> QED
  BY <1>1, <1>2, <1>3 DEF Todos

\* The fields of a frame.
LEMMA FrameFields ==
    ASSUME NEW f \in FrameType
    PROVE  /\ f.kind \in Kinds /\ f.at \in Ids \cup {None, SomeOp}
           /\ f.op \in Received \cup {"none"} /\ f.entry \in Ids \cup {None}
           /\ f.rest \in Seq(Ids) /\ f.todo \in Todos /\ f.due \subseteq Ids
BY DEF FrameType, Todos

\* The fields of a new frame.
LEMMA FrameIs ==
    ASSUME NEW kind \in Kinds, NEW at \in Ids \cup {None, SomeOp},
           NEW op \in Received \cup {"none"}, NEW entry \in Ids \cup {None},
           NEW todo \in Todos, NEW due \in SUBSET Ids
    PROVE  LET f == Frame(kind, at, op, entry, todo, due)
           IN  /\ f \in FrameType /\ f.kind = kind /\ f.at = at /\ f.entry = entry
               /\ f.rest = <<>> /\ f.todo = todo /\ f.due = due
BY EmptyList DEF Frame, FrameType, Todos

\* A stack and its frames.
Stacked(s) ==
    /\ s \in Seq(FrameType) /\ Len(s) \in Nat /\ DOMAIN s = Levels(s)
    /\ s # <<>> => Len(s) \in Levels(s)
    /\ s = <<>> => Levels(s) = {}
    /\ \A i \in Levels(s) :
          /\ s[i] \in FrameType /\ s[i].kind \in Kinds /\ s[i].at \in Ids \cup {None, SomeOp}
          /\ s[i].entry \in Ids \cup {None} /\ s[i].rest \in Seq(Ids)
          /\ s[i].todo \in Todos /\ s[i].due \subseteq Ids

\* What is on a stack.
LEMMA StackIs ==
    ASSUME NEW s \in Seq(FrameType)
    PROVE  Stacked(s)
<1>1. Len(s) \in Nat /\ DOMAIN s = 1 .. Len(s) /\ (s = <<>> <=> Len(s) = 0)
      /\ \A i \in 1 .. Len(s) : s[i] \in FrameType
  BY Elements
<1>2. s # <<>> => Len(s) \in Levels(s)
  BY <1>1 DEF Levels
<1>3. s = <<>> => Levels(s) = {}
  BY <1>1 DEF Levels
<1> QED
  BY <1>1, <1>2, <1>3, FrameFields DEF Stacked, Levels

\* t is s with f called, with f on top, or without its top
Pushed(s, t, f) ==
    /\ Stacked(t) /\ t # <<>> /\ Len(t) \notin Levels(s) /\ Levels(t) = Levels(s) \cup {Len(t)}
    /\ t[Len(t)] = f /\ \A i \in Levels(s) : t[i] = s[i]
    /\ s = <<>> => Len(t) = 1

Changed(s, t, f) ==
    /\ Stacked(t) /\ Len(t) = Len(s) /\ Levels(t) = Levels(s) /\ Len(s) \in Levels(s)
    /\ t[Len(s)] = f /\ \A i \in Levels(s) : i # Len(s) => t[i] = s[i]

Popped(s, t) ==
    /\ Stacked(t) /\ Len(s) \in Levels(s) /\ Levels(t) = Levels(s) \ {Len(s)}
    /\ \A i \in Levels(t) : t[i] = s[i]

\* A function is called.
LEMMA PushIs ==
    ASSUME NEW s \in Seq(FrameType), NEW f \in FrameType
    PROVE  Pushed(s, Append(s, f), f)
<1> DEFINE t == Append(s, f)
           n == Len(s)
<1>1. t \in Seq(FrameType) /\ Len(t) = n + 1 /\ t[n + 1] = f /\ \A i \in 1 .. n : t[i] = s[i]
  BY AppendProperties
<1>2. n \in Nat /\ (s = <<>> => n = 0)
  BY Elements
<1> HIDE DEF t, n
<1>3. Stacked(t) /\ t # <<>>
  BY <1>1, <1>2, StackIs, Elements
<1>4. Len(t) \notin Levels(s) /\ Levels(t) = Levels(s) \cup {Len(t)}
  BY <1>1, <1>2 DEF Levels, n
<1>5. s = <<>> => Len(t) = 1
  BY <1>1, <1>2
<1>6. t[Len(t)] = f
  BY <1>1
<1>7. \A i \in Levels(s) : t[i] = s[i]
  BY <1>1 DEF Levels, n
<1> QED
  BY <1>3, <1>4, <1>5, <1>6, <1>7 DEF Pushed, t

\* The loop calls a function.
LEMMA FirstPushed ==
    ASSUME NEW f \in FrameType
    PROVE  Pushed(<<>>, <<f>>, f)
<1>1. <<f>> = Append(<<>>, f) /\ <<>> \in Seq(FrameType)
  OBVIOUS
<1> QED
  BY <1>1, PushIs

\* The innermost function goes on.
LEMMA TopSetIs ==
    ASSUME NEW s \in Seq(FrameType), s # <<>>, NEW f \in FrameType
    PROVE  Changed(s, [s EXCEPT ![Len(s)] = f], f)
<1> DEFINE t == [s EXCEPT ![Len(s)] = f]
           n == Len(s)
<1>1. n \in Nat /\ n # 0 /\ n \in 1 .. n
  BY Elements
<1>2. t \in Seq(FrameType) /\ Len(t) = n
      /\ \A i \in 1 .. n : t[i] = IF i = n THEN f ELSE s[i]
  BY ExceptSeq, <1>1
<1> HIDE DEF t, n
<1>3. t[n] = f
  BY <1>1, <1>2
<1>4. Stacked(t)
  BY <1>2, StackIs
<1>5. Levels(t) = Levels(s) /\ n \in Levels(s)
  BY <1>1, <1>2 DEF Levels, n
<1>6. \A i \in Levels(s) : i # n => t[i] = s[i]
  BY <1>2 DEF Levels, n
<1> QED
  BY <1>2, <1>3, <1>4, <1>5, <1>6 DEF t, n, Changed

\* The innermost function ends.
LEMMA FrontIs ==
    ASSUME NEW s \in Seq(FrameType), s # <<>>
    PROVE  Popped(s, Front(s))
<1> DEFINE n == Len(s)
           t == SubSeq(s, 1, n - 1)
<1>1. n \in Nat /\ n # 0 /\ 1 \in Int /\ n - 1 \in Int
      /\ \A i \in 1 .. n : s[i] \in FrameType
  BY Elements
<1>2. \A i \in 1 .. n - 1 : i \in 1 .. n
  BY <1>1
<1>3. Front(s) = t
  BY DEF Front
<1> HIDE DEF n
<1>4. /\ t \in Seq(FrameType) /\ Len(t) = IF 1 <= n - 1 THEN n - 1 - 1 + 1 ELSE 0
      /\ \A i \in 1 .. n - 1 - 1 + 1 : t[i] = s[1 + i - 1]
  <2>1. \A i \in 1 .. n - 1 : s[i] \in FrameType
    BY <1>1, <1>2
  <2> QED
    BY <1>1, <2>1, SubSeqProperties
<1> HIDE DEF t
<1>5. Len(t) = n - 1
  BY <1>1, <1>4
<1>6. ASSUME NEW i \in 1 .. n - 1 PROVE t[i] = s[i]
  <2>1. i \in 1 .. n - 1 - 1 + 1 /\ 1 + i - 1 = i
    BY <1>1
  <2> QED
    BY <2>1, <1>4
<1>7. Stacked(t)
  BY <1>4, StackIs
<1>8. Levels(t) = Levels(s) \ {n} /\ n \in Levels(s)
  BY <1>1, <1>5 DEF Levels, n
<1>9. \A i \in Levels(t) : t[i] = s[i]
  BY <1>5, <1>6 DEF Levels
<1> QED
  BY <1>3, <1>7, <1>8, <1>9 DEF n, Popped

\* Only functions that hold the bearer, or will give it up, count.
LEMMA ReferencedIs ==
    ASSUME NEW s \in Seq(FrameType)
    PROVE  Referenced(s) <=> \E i \in Levels(s) : \/ s[i].kind \in {"notify", "disconn"}
                                                  \/ s[i].todo \in Unrefs
BY StackIs, TodoIs DEF Stacked, Referenced

\* The lists that are being emptied stay.
Quiet(s, t) ==
    /\ Stacked(s) /\ Stacked(t)
    /\ \A i \in Levels(s) : s[i].rest = <<>> \/ (i \in Levels(t) /\ t[i].rest = s[i].rest)
    /\ \A i \in Levels(t) : t[i].rest = <<>> \/ (i \in Levels(s) /\ t[i].rest = s[i].rest)

\* What a step leaves that neither moves handlers nor runs hooks.
LEMMA PlacedStays ==
    ASSUME NEW a, NEW s, NEW b, NEW t, NEW h, Quiet(s, t),
           b.notify = a.notify, b.disconn = a.disconn, b.next_reg_id = a.next_reg_id,
           Placed(a, s), Hooked(a, s, h)
    PROVE  Placed(b, t) /\ Hooked(b, t, h)
<1>1. ToSet(<<>>) = {} /\ Distinct(<<>>)
  BY EmptyList
<1>2. ASSUME NEW id
      PROVE  (\E i \in Levels(s) : id \in ToSet(s[i].rest))
               <=> (\E i \in Levels(t) : id \in ToSet(t[i].rest))
  BY <1>1 DEF Quiet
<1>3. Hooked(b, t, h)
  BY <1>2 DEF Hooked
<1>4. \A i, j \in Levels(t) : i # j => ToSet(t[i].rest) \cap ToSet(t[j].rest) = {}
  BY <1>1 DEF Quiet, Placed
<1>5. \A i \in Levels(t) : /\ Distinct(t[i].rest)
                           /\ ToSet(t[i].rest) \cap ToSet(b.notify) = {}
                           /\ ToSet(t[i].rest) \cap ToSet(b.disconn) = {}
  BY <1>1 DEF Quiet, Placed
<1> QED
  BY <1>3, <1>4, <1>5 DEF Placed

\* Handlers that were registered stay so.
LEMMA KnownStays ==
    ASSUME NEW a, NEW s, NEW b, NEW t, NEW g, Quiet(s, t),
           b.notify = a.notify, b.disconn = a.disconn, b.next_reg_id = a.next_reg_id,
           b.removed = a.removed, Known(a, s, g),
           \A i \in Levels(t) : t[i].entry < a.next_reg_id
    PROVE  Known(b, t, g)
<1>1. \A i \in Levels(t) : \A id \in ToSet(t[i].rest) : id < a.next_reg_id
  BY EmptyList DEF Quiet, Known
<1> QED
  BY <1>1 DEF Known

-----------------------------------------------------------------------------
(* The steps *)

\* The fields of a bearer.
LEMMA AttFields ==
    ASSUME NEW a \in AttType
    PROVE  /\ a.notify \in Seq(Ids) /\ a.disconn \in Seq(Ids)
           /\ a.for \in [Ids -> Handled \cup {Disconn, "none"}] /\ a.removed \subseteq Ids
           /\ a.next_reg_id \in 1 .. MaxIds + 1
           /\ a.io \in BOOLEAN /\ a.held \in BOOLEAN /\ a.freed \in BOOLEAN
BY DEF AttType

\* What the invariant says of the types.
LEMMA InvFields ==
    ASSUME HandlersInv
    PROVE  /\ stack \in Seq(FrameType) /\ Stacked(stack)
           /\ att \in AttType /\ att.notify \in Seq(Ids) /\ att.disconn \in Seq(Ids)
           /\ att.next_reg_id \in 1 .. MaxIds + 1
           /\ Distinct(att.notify) /\ Distinct(att.disconn)
           /\ ToSet(att.notify) \subseteq Ids /\ ToSet(att.disconn) \subseteq Ids
<1>1. att \in AttType /\ stack \in Seq(FrameType) /\ Placed(att, stack)
  BY DEF HandlersInv, Types
<1>2. Stacked(stack)
  BY <1>1, StackIs
<1>3. att.notify \in Seq(Ids) /\ att.disconn \in Seq(Ids) /\ att.next_reg_id \in 1 .. MaxIds + 1
  BY <1>1, AttFields
<1>4. ToSet(att.notify) \subseteq Ids /\ ToSet(att.disconn) \subseteq Ids
  BY <1>3, Elements
<1> QED
  BY <1>1, <1>2, <1>3, <1>4 DEF Placed

\* The ids are numbers.
LEMMA Numbers ==
    /\ MaxIds \in Nat \ {0} /\ None = 0 /\ SomeOp = MaxIds + 1 /\ Ids = 1 .. MaxIds
    /\ None \notin Ids /\ SomeOp \notin Ids /\ SomeOp # None
    /\ \A n \in 1 .. MaxIds + 1 : None < n
BY HandlerConstants DEF None, SomeOp, Ids

\* While the upper layer has its reference the bearer does not end.
LEMMA HeldIs ==
    ASSUME HandlersInv, att.held
    PROVE  ~Ending(att, stack) /\ ~att.freed /\ \A i \in Levels(stack) : stack[i].todo \notin Frees
BY DEF HandlersInv, Shape, Ending

\* A bearer with one handler more.
LEMMA Registering ==
    ASSUME HandlersInv, NEW list \in Lists, NEW what \in Handled \cup {Disconn},
           Register(list, what)
    PROVE  LET n == att.next_reg_id
           IN  /\ att' \in AttType /\ n \in Ids /\ att.io /\ att.held /\ ~crashed
               /\ att'.notify = IF list = "notify" THEN Append(att.notify, n) ELSE att.notify
               /\ att'.disconn = IF list = "disconn" THEN Append(att.disconn, n) ELSE att.disconn
               /\ att'.next_reg_id = n + 1 /\ att'.for = [att.for EXCEPT ![n] = what]
               /\ att'.removed = att.removed /\ att'.io = att.io /\ att'.held = att.held
               /\ att'.freed = att.freed
               /\ misused' = (misused \/ (list = "notify" /\ Dangling))
               /\ stack' = stack /\ crashed' = crashed /\ hooks' = hooks /\ told' = told
               /\ given' = given
<1> DEFINE n == att.next_reg_id
<1>1. /\ n \in Ids /\ att.io /\ att.held /\ ~crashed
      /\ att' = [att EXCEPT !.next_reg_id = n + 1, ![list] = Append(att[list], n),
                            !.for = [att.for EXCEPT ![n] = what]]
      /\ misused' = (misused \/ (list = "notify" /\ Dangling))
      /\ stack' = stack /\ crashed' = crashed /\ hooks' = hooks /\ told' = told
      /\ given' = given
  BY DEF Register, Calling
<1>2. /\ att \in AttType /\ att.notify \in Seq(Ids) /\ att.disconn \in Seq(Ids)
      /\ att.for \in [Ids -> Handled \cup {Disconn, "none"}]
  BY InvFields, AttFields
<1>3. Append(att.notify, n) \in Seq(Ids) /\ Append(att.disconn, n) \in Seq(Ids)
  BY <1>1, <1>2, AppendProperties
<1>4. n + 1 \in 1 .. MaxIds + 1
  BY <1>1, Numbers
<1>5. [att.for EXCEPT ![n] = what] \in [Ids -> Handled \cup {Disconn, "none"}]
  BY <1>1, <1>2
<1> HIDE DEF n
<1>6. CASE list = "notify"
  <2>1. att' = [att EXCEPT !.next_reg_id = n + 1, !.notify = Append(att.notify, n),
                           !.for = [att.for EXCEPT ![n] = what]]
    BY <1>1, <1>6
  <2> QED
    BY <2>1, <1>1, <1>2, <1>3, <1>4, <1>5, <1>6 DEF AttType, n
<1>7. CASE list = "disconn"
  <2>1. att' = [att EXCEPT !.next_reg_id = n + 1, !.disconn = Append(att.disconn, n),
                           !.for = [att.for EXCEPT ![n] = what]]
    BY <1>1, <1>7
  <2> QED
    BY <2>1, <1>1, <1>2, <1>3, <1>4, <1>5, <1>7 DEF AttType, n
<1> QED
  BY <1>6, <1>7 DEF Lists

\* bt_att_register and bt_att_register_disconnect.
LEMMA RegisterKeeps ==
    ASSUME HandlersInv, NEW list \in Lists, NEW what \in Handled \cup {Disconn},
           list = "notify" => what \in Handled, Register(list, what)
    PROVE  HandlersInv'
<1> DEFINE n == att.next_reg_id
<1>1. /\ att' \in AttType /\ n \in Ids /\ att.io /\ att.held /\ ~crashed
      /\ att'.notify = IF list = "notify" THEN Append(att.notify, n) ELSE att.notify
      /\ att'.disconn = IF list = "disconn" THEN Append(att.disconn, n) ELSE att.disconn
      /\ att'.next_reg_id = n + 1 /\ att'.for = [att.for EXCEPT ![n] = what]
      /\ att'.removed = att.removed /\ att'.io = att.io /\ att'.held = att.held
      /\ att'.freed = att.freed
  BY Registering
<1>2. /\ misused' = (misused \/ (list = "notify" /\ Dangling))
      /\ stack' = stack /\ crashed' = crashed /\ hooks' = hooks /\ told' = told
      /\ given' = given
  BY Registering
<1>3. Stacked(stack) /\ given \subseteq Ids /\ n \in 1 .. MaxIds /\ MaxIds \in Nat
  BY <1>1, InvFields, Numbers DEF HandlersInv, Types
<1> HIDE DEF n
<1>4. Known(att, stack, given)
  BY DEF HandlersInv
<1>5. /\ n \notin ToSet(att.notify) /\ n \notin ToSet(att.disconn) /\ n \notin given
      /\ \A i \in Levels(stack) : n \notin ToSet(stack[i].rest)
  BY <1>3, <1>4 DEF Known, n
<1>6. /\ Distinct(att'.notify) /\ Distinct(att'.disconn)
      /\ ToSet(att'.notify) = ToSet(att.notify) \cup IF list = "notify" THEN {n} ELSE {}
      /\ ToSet(att'.disconn) = ToSet(att.disconn) \cup IF list = "disconn" THEN {n} ELSE {}
  BY <1>1, <1>5, InvFields, AppendIs
<1>7. /\ \A e : Behind(att.notify, e) \subseteq Behind(att'.notify, e)
      /\ att'.notify = <<>> => att.notify = <<>> /\ list # "notify"
      /\ att'.disconn = <<>> => att.disconn = <<>> /\ list # "disconn"
  BY <1>1, <1>5, InvFields, AppendIs
<1>8. ~Ending(att, stack) /\ ~att.freed /\ ~Ending(att', stack')
  <2>1. ~Ending(att, stack) /\ ~att.freed
    BY <1>1, HeldIs
  <2> QED
    BY <2>1, <1>1, <1>2 DEF Ending
<1>9. Types'
  BY <1>1, <1>2 DEF HandlersInv, Types
<1>10. Shape(att', stack')
  <2>1. \A i \in Levels(stack) : FrameFits(att, stack, i)
    BY DEF HandlersInv, Shape
  <2>2. \A i \in Levels(stack) : stack[i].todo \notin Frees
    BY <1>1, HeldIs
  <2>3. \A i \in Levels(stack) : FrameFits(att', stack, i)
    BY <2>1, <2>2, <1>1, <1>2, <1>8 DEF FrameFits, Frees
  <2> QED
    BY <2>3, <1>1, <1>2, <1>8 DEF Shape
<1>11. list = "notify" => list # "disconn"
  OBVIOUS
<1>12. Placed(att', stack')
  <2>1. Placed(att, stack)
    BY DEF HandlersInv
  <2> QED
    BY <2>1, <1>2, <1>5, <1>6, <1>11 DEF Placed
<1>13. Hooked(att', stack', hooks')
  <2>1. Hooked(att, stack, hooks)
    BY DEF HandlersInv
  <2>2. \A id \in Ids : id >= n <=> id >= n + 1 \/ id = n
    BY <1>3, Numbers
  <2>3. list = "notify" \/ list = "disconn"
    BY DEF Lists
  <2>4. ASSUME NEW id \in Ids
        PROVE  (id >= n \/ id \in ToSet(att.notify) \/ id \in ToSet(att.disconn))
                 <=> (id >= n + 1 \/ id \in ToSet(att'.notify) \/ id \in ToSet(att'.disconn))
    BY <2>2, <2>3, <1>6
  <2> QED
    BY <2>1, <2>4, <1>1, <1>2 DEF Hooked, n
<1>14. Known(att', stack', given')
  <2>1. \A k \in Ids \cup {None} : k < n => k < n + 1
    BY <1>3, Numbers
  <2>2. /\ \A id \in ToSet(att.notify) \cup ToSet(att.disconn) \cup given : id \in Ids
        /\ \A i \in Levels(stack) : stack[i].rest \in Seq(Ids) /\ stack[i].entry \in Ids \cup {None}
    BY <1>3, InvFields DEF Stacked
  <2>3. \A i \in Levels(stack) : \A id \in ToSet(stack[i].rest) : id \in Ids
    BY <2>2, Elements
  <2>4. n < n + 1
    BY <1>3
  <2>5. /\ \A id \in ToSet(att.notify) \cup ToSet(att.disconn) \cup given : id < n + 1
        /\ \A i \in Levels(stack) : \A id \in ToSet(stack[i].rest) : id < n + 1
        /\ \A i \in Levels(stack) : stack[i].entry < n + 1
    BY <1>4, <2>1, <2>2, <2>3 DEF Known, n
  <2>6. ToSet(att.notify) \cap given = {} /\ ToSet(att.disconn) \cap given \subseteq att.removed
        /\ att.removed \subseteq given
    BY <1>4 DEF Known
  <2> QED
    BY <2>4, <2>5, <2>6, <1>1, <1>2, <1>5, <1>6 DEF Known
<1>15. Contract(att', stack', crashed', misused')
  <2>1. Contract(att, stack, crashed, misused)
    BY DEF HandlersInv
  <2>2. \A i \in Levels(stack) : stack[i].kind = "disconn" => ~att.io
    BY DEF HandlersInv, Shape, FrameFits
  <2>3. ~misused' /\ list = "notify" =>
           \A i \in Levels(stack) : stack[i].kind = "notify" =>
               stack[i].entry \in ToSet(att.notify) \cup {None}
    BY <1>2, <1>3 DEF Dangling, Stacked
  <2>4. ~misused' => \A i \in Levels(stack) : stack[i].kind = "notify" =>
                         Entered(att'.notify, stack[i].entry)
    BY <2>1, <2>3, <1>1, <1>2, <1>6 DEF Contract, Entered
  <2> QED
    BY <2>1, <2>2, <2>4, <1>1, <1>2, <1>8 DEF Contract
<1>16. Telling(att', stack', told', given')
  <2>1. Telling(att, stack, told, given)
    BY DEF HandlersInv
  <2>2. \A i \in Levels(stack) : stack[i].kind = "disconn" => ~att.io
    BY DEF HandlersInv, Shape, FrameFits
  <2>3. \A id \in 1 .. n : id \in 1 .. n - 1 \/ id = n
    BY <1>3
  <2>4. n + 1 - 1 = n /\ \A id \in 1 .. n - 1 : id \in Ids /\ id # n
    BY <1>3, Numbers
  <2>5. att.for \in [Ids -> Handled \cup {Disconn, "none"}]
    BY InvFields, AttFields
  <2>6. ASSUME NEW id \in 1 .. n, att'.for[id] = Disconn
        PROVE  id \in ToSet(att'.disconn) \/ id \in given \/ told[id] = 1
    <3>1. CASE id = n
      <4>1. att'.for[n] = what
        BY <1>1, <2>5
      <4>2. list # "notify"
        BY <4>1, <3>1, <2>6, OnlyOpcodes
      <4> QED
        BY <3>1, <4>2, <1>6 DEF Lists
    <3>2. CASE id # n
      <4>1. id \in 1 .. n - 1 /\ att'.for[id] = att.for[id]
        BY <3>2, <2>3, <2>4, <2>5, <1>1
      <4> QED
        BY <4>1, <2>1, <2>6, <1>6, <1>8 DEF Telling, n
    <3> QED
      BY <3>1, <3>2
  <2>7. att'.next_reg_id = n + 1
    BY <1>1
  <2>8. att'.next_reg_id - 1 = n
    BY <2>7, <1>3
  <2>9. att'.io
    BY <1>1
  <2> QED
    BY <2>1, <2>2, <2>6, <2>8, <2>9, <1>1, <1>2 DEF Telling
<1>17. Offering(att', stack', given')
  <2>1. Offering(att, stack, given)
    BY DEF HandlersInv
  <2>2. \A i \in Levels(stack) : stack[i].entry # n
    BY <1>3, <1>4, Numbers DEF Known, n, Stacked
  <2>3. ToSet(att.notify) \subseteq ToSet(att'.notify)
    BY <1>6
  <2>4. \A i \in Levels(stack) : stack[i].entry \in ToSet(att'.notify) => stack[i].entry \in ToSet(att.notify)
    BY <1>6, <2>2
  <2> QED
    BY <2>1, <2>3, <2>4, <1>2, <1>7 DEF Offering
<1> QED
  BY <1>9, <1>10, <1>12, <1>13, <1>14, <1>15, <1>16, <1>17 DEF HandlersInv

\* The functions that the loop has called stay what they are.
SameWalks(s, t) ==
    /\ \A i \in Levels(t) : t[i].kind \in {"notify", "ops", "disconn"} =>
          /\ i \in Levels(s) /\ t[i].kind = s[i].kind
          /\ t[i].entry = s[i].entry /\ t[i].due = s[i].due
    /\ \A i \in Levels(s) : s[i].kind \in {"notify", "ops", "disconn"} =>
          i \in Levels(t) /\ t[i].kind = s[i].kind

\* So does the disconnect_cb that is under way.
SameReport(s, t) ==
    /\ \A i \in Levels(t) : t[i].kind \in {"ops", "disconn"} =>
          i \in Levels(s) /\ t[i].kind = s[i].kind /\ t[i].entry = s[i].entry
    /\ \A i \in Levels(s) : s[i].kind \in {"ops", "disconn"} =>
          i \in Levels(t) /\ t[i].kind = s[i].kind

\* Who has been told is as before.
LEMMA ReportStays ==
    ASSUME NEW a, NEW s, NEW b, NEW t, NEW told1, NEW g, NEW g1, SameReport(s, t),
           b.disconn = a.disconn, b.next_reg_id = a.next_reg_id, b.for = a.for, b.io = a.io,
           Ending(a, s) => Ending(b, t), g \subseteq g1, Telling(a, s, told1, g)
    PROVE  Telling(b, t, told1, g1)
<1>1. (\A i \in Levels(t) : t[i].kind \notin {"ops", "disconn"})
        => \A i \in Levels(s) : s[i].kind \notin {"ops", "disconn"}
  BY DEF SameReport
<1>2. \A i \in Levels(t) : t[i].kind = "disconn" =>
          \A id \in ToSet(b.disconn) :
              IF id \in Behind(b.disconn, t[i].entry) THEN told1[id] = 0
              ELSE told1[id] = 1 \/ id \in g1
  BY DEF SameReport, Telling
<1>3. \A i \in Levels(t) : t[i].kind = "ops" => \A id \in Ids : told1[id] = 0
  BY DEF SameReport, Telling
<1>4. \A id \in Ids : told1[id] <= 1
  BY DEF Telling
<1>5. b.io => \A id \in Ids : told1[id] = 0
  BY DEF Telling
<1>6. ~Ending(b, t) => \A id \in 1 .. b.next_reg_id - 1 :
          b.for[id] = Disconn => id \in ToSet(b.disconn) \/ id \in g1 \/ told1[id] = 1
  BY DEF Telling
<1>7. ~b.io /\ (\A i \in Levels(t) : t[i].kind \notin {"ops", "disconn"}) =>
          \A id \in 1 .. b.next_reg_id - 1 : b.for[id] = Disconn => id \in g1 \/ told1[id] = 1
  BY <1>1 DEF Telling
<1> QED
  BY <1>2, <1>3, <1>4, <1>5, <1>6, <1>7 DEF Telling

\* Nor does a PDU that is being offered count.
LEMMA TellingStays ==
    ASSUME NEW a, NEW s, NEW b, NEW t, NEW told1, NEW g, NEW g1, SameWalks(s, t),
           b.disconn = a.disconn, b.next_reg_id = a.next_reg_id, b.for = a.for, b.io = a.io,
           Ending(a, s) => Ending(b, t), g \subseteq g1, Telling(a, s, told1, g)
    PROVE  Telling(b, t, told1, g1)
<1>1. SameReport(s, t)
  BY DEF SameWalks, SameReport
<1> QED
  BY <1>1, ReportStays

\* Whom a PDU is to be offered to is as before.
LEMMA OfferingStays ==
    ASSUME NEW a, NEW s, NEW b, NEW t, NEW g, NEW g1, SameWalks(s, t),
           b.notify = a.notify, g \subseteq g1, Offering(a, s, g)
    PROVE  Offering(b, t, g1)
BY DEF SameWalks, Offering

\* A callback has called a function.
LEMMA ShapePushed ==
    ASSUME NEW a, NEW s, NEW b, NEW t, NEW f, Stacked(s), Pushed(s, t, f),
           Shape(a, s), ~Ending(a, s),
           f.kind \in {"one", "series"}, f.kind = "one" => f.todo = <<>>,
           f.rest = <<>>, f.todo \in Alls, b.io = a.io, b.freed = a.freed
    PROVE  Shape(b, t) /\ ~Ending(b, t) /\ SameWalks(s, t) /\ Quiet(s, t)
<1>1. f.todo \notin Unrefs /\ f.todo \notin Frees
  BY TodoIs DEF Todos
<1>2. ~Ending(b, t)
  BY <1>1 DEF Pushed, Ending
<1>3. \A i \in Levels(s) : FrameFits(a, s, i) /\ s[i].todo \notin Frees
  BY DEF Shape, Ending
<1>4. \A i \in Levels(s) : FrameFits(b, t, i)
  BY <1>2, <1>3 DEF FrameFits, Pushed, Frees
<1>5. FrameFits(b, t, Len(t))
  BY <1>1, <1>2 DEF FrameFits, Pushed, Frees
<1>6. ~b.freed
  BY DEF Ending
<1>7. Shape(b, t)
  BY <1>2, <1>4, <1>5, <1>6 DEF Shape, Pushed
<1>8. SameWalks(s, t)
  BY DEF SameWalks, Pushed
<1>9. Quiet(s, t)
  BY DEF Quiet, Pushed
<1> QED
  BY <1>2, <1>7, <1>8, <1>9

\* A bearer with one handler less.
LEMMA TakenOut ==
    ASSUME HandlersInv, NEW list \in Lists, NEW id \in ToSet(att[list]), Unregistered(list, id)
    PROVE  /\ att' \in AttType /\ id \in Ids
           /\ att'.notify = IF list = "notify" THEN RemoveFirst(att.notify, id) ELSE att.notify
           /\ att'.disconn = IF list = "disconn" THEN RemoveFirst(att.disconn, id) ELSE att.disconn
           /\ att'.next_reg_id = att.next_reg_id /\ att'.for = att.for
           /\ att'.removed = att.removed /\ att'.io = att.io /\ att'.held = att.held
           /\ att'.freed = att.freed
<1>1. /\ att \in AttType /\ att.notify \in Seq(Ids) /\ att.disconn \in Seq(Ids)
      /\ Distinct(att.notify) /\ Distinct(att.disconn)
  BY InvFields
<1>2. att' = [att EXCEPT ![list] = RemoveFirst(att[list], id)]
  BY DEF Unregistered
<1>3. CASE list = "notify"
  <2>1. att' = [att EXCEPT !.notify = RemoveFirst(att.notify, id)] /\ id \in ToSet(att.notify)
    BY <1>2, <1>3
  <2>2. RemoveFirst(att.notify, id) \in Seq(Ids)
    BY <1>1, <2>1, RemoveFirstIs
  <2>3. id \in Ids
    BY <1>1, <2>1, Elements
  <2> QED
    BY <2>1, <2>2, <2>3, <1>1, <1>3 DEF AttType
<1>4. CASE list = "disconn"
  <2>1. att' = [att EXCEPT !.disconn = RemoveFirst(att.disconn, id)] /\ id \in ToSet(att.disconn)
    BY <1>2, <1>4
  <2>2. RemoveFirst(att.disconn, id) \in Seq(Ids)
    BY <1>1, <2>1, RemoveFirstIs
  <2>3. id \in Ids
    BY <1>1, <2>1, Elements
  <2> QED
    BY <2>1, <2>2, <2>3, <1>1, <1>4 DEF AttType
<1> QED
  BY <1>3, <1>4 DEF Lists

\* bt_att_unregister, and bt_att_unregister_disconnect while there is an io.
LEMMA UnregisteredKeeps ==
    ASSUME HandlersInv, NEW list \in Lists, NEW id \in ToSet(att[list]),
           Calling, list = "disconn" => att.io, Unregistered(list, id),
           given' = given \cup {id}, crashed' = crashed, told' = told,
           misused' = (misused \/ (list = "notify" /\ \E i \in DOMAIN stack :
                           stack[i].kind = "notify" /\ stack[i].entry = id))
    PROVE  HandlersInv'
<1> DEFINE f == Frame("one", id, "none", None, <<>>, {})
<1>1. /\ att' \in AttType /\ id \in Ids
      /\ att'.notify = IF list = "notify" THEN RemoveFirst(att.notify, id) ELSE att.notify
      /\ att'.disconn = IF list = "disconn" THEN RemoveFirst(att.disconn, id) ELSE att.disconn
      /\ att'.next_reg_id = att.next_reg_id /\ att'.for = att.for
      /\ att'.removed = att.removed /\ att'.io = att.io /\ att'.held = att.held
      /\ att'.freed = att.freed
  BY TakenOut
<1>2. /\ stack' = Append(stack, f) /\ hooks' = [hooks EXCEPT ![id] = @ + 1]
      /\ att.held /\ ~crashed
  BY DEF Unregistered, Calling
<1>3. /\ Stacked(stack) /\ stack \in Seq(FrameType) /\ given \subseteq Ids
      /\ hooks \in [Ids -> Nat] /\ told \in [Ids -> Nat] /\ misused \in BOOLEAN
  BY InvFields DEF HandlersInv, Types
<1>4. /\ f \in FrameType /\ f.kind = "one" /\ f.at = id /\ f.entry = None
      /\ f.rest = <<>> /\ f.todo = <<>> /\ f.due = {}
  BY <1>1, FrameIs, TodoIs, SMTT(30) DEF Kinds, Todos, Alls
<1> HIDE DEF f
<1>5. Pushed(stack, stack', f)
  BY <1>2, <1>3, <1>4, PushIs
<1>6. ~Ending(att, stack) /\ ~att.freed
  BY <1>2, HeldIs
<1>7. Shape(att', stack') /\ ~Ending(att', stack') /\ SameWalks(stack, stack') /\ Quiet(stack, stack')
  <2>1. Shape(att, stack) /\ <<>> \in Alls
    BY DEF HandlersInv, Alls
  <2> QED
    BY <2>1, <1>1, <1>3, <1>4, <1>5, <1>6, ShapePushed
<1>8. id \in ToSet(att.notify) <=> list = "notify"
  BY DEF HandlersInv, Placed, Lists
<1>9. id \in ToSet(att.disconn) <=> list = "disconn"
  BY DEF HandlersInv, Placed, Lists
<1>10. /\ Distinct(att'.notify) /\ ToSet(att'.notify) = ToSet(att.notify) \ {id}
       /\ \A e : e # id => Behind(att.notify, e) \ {id} \subseteq Behind(att'.notify, e)
  <2>1. CASE list = "notify"
    BY <2>1, <1>1, <1>8, InvFields, RemoveFirstIs
  <2>2. CASE list # "notify"
    BY <2>2, <1>1, <1>8, InvFields
  <2> QED
    BY <2>1, <2>2
<1>11. Distinct(att'.disconn) /\ ToSet(att'.disconn) = ToSet(att.disconn) \ {id}
  <2>1. CASE list = "disconn"
    BY <2>1, <1>1, <1>9, InvFields, RemoveFirstIs
  <2>2. CASE list # "disconn"
    BY <2>2, <1>1, <1>9, InvFields
  <2> QED
    BY <2>1, <2>2
<1>12. Types'
  <2>1. hooks' \in [Ids -> Nat]
    <3>1. hooks[id] + 1 \in Nat
      BY <1>1, <1>3
    <3> QED
      BY <3>1, <1>2, <1>3
  <2>2. stack' \in Seq(FrameType) /\ given' \subseteq Ids /\ misused' \in BOOLEAN
    BY <1>1, <1>3, <1>5 DEF Pushed, Stacked
  <2> QED
    BY <2>1, <2>2, <1>1 DEF HandlersInv, Types
<1>13. Placed(att, stack) /\ Hooked(att, stack, hooks)
  BY DEF HandlersInv
<1>14. Placed(att, stack') /\ Hooked(att, stack', hooks)
  BY <1>7, <1>13, PlacedStays
<1>15. Placed(att', stack')
  BY <1>14, <1>10, <1>11 DEF Placed
<1>16. \A i \in Levels(stack') : id \notin ToSet(stack'[i].rest)
  BY <1>8, <1>9, <1>14 DEF Placed, Lists
<1>17. Known(att, stack, given)
  BY DEF HandlersInv
<1>18. ~(id >= att.next_reg_id)
  <2>1. id < att.next_reg_id
    BY <1>8, <1>9, <1>17 DEF Known, Lists
  <2> QED
    BY <2>1, <1>1, InvFields, Numbers
<1>19. Hooked(att', stack', hooks')
  <2>1. hooks[id] = 0
    BY <1>1, <1>8, <1>9, <1>14 DEF Hooked, Lists
  <2>2. hooks'[id] = 1 /\ \A x \in Ids : x # id => hooks'[x] = hooks[x]
    BY <2>1, <1>1, <1>2, <1>3
  <2> QED
    BY <2>2, <1>1, <1>10, <1>11, <1>14, <1>16, <1>18 DEF Hooked
<1>20. Known(att', stack', given')
  <2>1. \A i \in Levels(stack') : stack'[i].entry < att.next_reg_id
    BY <1>4, <1>5, <1>17, InvFields, Numbers DEF Known, Pushed
  <2>2. Known(att, stack', given)
    BY <1>7, <1>17, <2>1, KnownStays
  <2>3. id < att.next_reg_id
    BY <1>8, <1>9, <1>17 DEF Known, Lists
  <2> QED
    BY <2>2, <2>3, <1>1, <1>10, <1>11 DEF Known
<1>21. Contract(att', stack', crashed', misused')
  <2>1. Contract(att, stack, crashed, misused)
    BY DEF HandlersInv
  <2>2. \A i \in Levels(stack) : stack[i].kind = "disconn" => ~att.io
    BY DEF HandlersInv, Shape, FrameFits
  <2>3. ~misused' => ~misused /\ \A i \in Levels(stack) :
            stack[i].kind = "notify" /\ list = "notify" => stack[i].entry # id
    BY <1>3 DEF Stacked
  <2>4. ~misused' => \A i \in Levels(stack) : stack[i].kind = "notify" =>
                         Entered(att'.notify, stack[i].entry)
    <3>1. CASE list = "notify"
      BY <3>1, <2>1, <2>3, <1>8, <1>10, EmptyList DEF Contract, Entered
    <3>2. CASE list # "notify"
      BY <3>2, <2>1, <2>3, <1>1 DEF Contract, Entered
    <3> QED
      BY <3>1, <3>2
  <2>5. \A i \in Levels(stack) : stack[i].kind = "disconn" => Entered(att'.disconn, stack[i].entry)
    BY <2>1, <2>2, <1>1 DEF Contract
  <2>6. \A i \in Levels(stack') : stack'[i].kind \in {"notify", "disconn"} =>
            i \in Levels(stack) /\ stack'[i] = stack[i]
    BY <1>4, <1>5 DEF Pushed
  <2>7. ~att'.freed /\ (~misused' => ~crashed')
    BY <1>1, <1>2, <1>6
  <2> QED
    BY <2>4, <2>5, <2>6, <2>7, <1>7 DEF Contract
<1>22. Telling(att', stack', told', given')
  <2>1. Telling(att, stack, told, given)
    BY DEF HandlersInv
  <2>2. Telling(att, stack', told, given')
    BY <2>1, <1>6, <1>7, TellingStays
  <2>3. \A i \in Levels(stack') : stack'[i].kind = "disconn" => ~att.io
    BY <1>7, <1>1 DEF Shape, FrameFits
  <2>4. ASSUME NEW i \in Levels(stack'), stack'[i].kind = "disconn"
        PROVE  att'.disconn = att.disconn
    BY <2>3, <2>4, <1>1
  <2>5. \A x \in ToSet(att.disconn) : x \in ToSet(att'.disconn) \/ x \in given'
    BY <1>11
  <2>6. ~Ending(att, stack')
    BY <1>7, <1>1 DEF Ending
  <2> QED
    BY <2>2, <2>4, <2>5, <2>6, <1>1 DEF Telling
<1>23. Offering(att', stack', given')
  <2>1. Offering(att, stack, given)
    BY DEF HandlersInv
  <2>2. Offering(att, stack', given')
    BY <2>1, <1>7, OfferingStays
  <2> QED
    BY <2>2, <1>10 DEF Offering
<1> QED
  BY <1>7, <1>12, <1>15, <1>19, <1>20, <1>21, <1>22, <1>23 DEF HandlersInv

\* What callbacks have kept to is as before.
LEMMA ContractStays ==
    ASSUME NEW a, NEW s, NEW b, NEW t, NEW c, NEW c1, NEW m, NEW m1, SameWalks(s, t),
           b.notify = a.notify, b.disconn = a.disconn, ~Ending(b, t),
           ~m1 => ~m /\ ~c1, Contract(a, s, c, m)
    PROVE  Contract(b, t, c1, m1)
<1>1. ~b.freed
  BY DEF Ending
<1>2. \A i \in Levels(t) : t[i].kind = "disconn" => Entered(b.disconn, t[i].entry)
  BY DEF SameWalks, Contract
<1>3. ~m1 => \A i \in Levels(t) : t[i].kind = "notify" => Entered(b.notify, t[i].entry)
  BY DEF SameWalks, Contract
<1> QED
  BY <1>1, <1>2, <1>3 DEF Contract

\* A function that stays where it is.
LEMMA SameStack ==
    ASSUME NEW s, Stacked(s)
    PROVE  SameWalks(s, s) /\ Quiet(s, s)
BY DEF SameWalks, Quiet

\* bt_att_unregister.
LEMMA UnregisterKeeps ==
    ASSUME HandlersInv, NEW id \in Ids, Unregister(id)
    PROVE  HandlersInv'
<1>1. /\ id \in ToSet(att.notify) /\ Calling /\ Unregistered("notify", id)
      /\ given' = given \cup {id} /\ crashed' = crashed /\ told' = told
      /\ misused' = (misused \/ \E i \in DOMAIN stack :
                        stack[i].kind = "notify" /\ stack[i].entry = id)
  BY DEF Unregister
<1>2. "notify" \in Lists /\ att["notify"] = att.notify
  BY DEF Lists
<1> QED
  BY <1>1, <1>2, UnregisteredKeeps

\* bt_att_unregister_disconnect.
LEMMA UnregisterDisconnectKeeps ==
    ASSUME HandlersInv, NEW id \in Ids, UnregisterDisconnect(id)
    PROVE  HandlersInv'
<1>1. /\ id \in ToSet(att.disconn) /\ Calling
      /\ given' = given \cup {id} /\ crashed' = crashed /\ told' = told /\ misused' = misused
  BY DEF UnregisterDisconnect
<1>2. CASE att.io
  <2>1. "disconn" \in Lists /\ att["disconn"] = att.disconn /\ Unregistered("disconn", id)
    BY <1>2 DEF Lists, UnregisterDisconnect
  <2>2. misused' = (misused \/ ("disconn" = "notify" /\ \E i \in DOMAIN stack :
                        stack[i].kind = "notify" /\ stack[i].entry = id))
    <3>1. misused \in BOOLEAN
      BY DEF HandlersInv, Types
    <3> QED
      BY <1>1, <3>1
  <2> QED
    BY <1>1, <1>2, <2>1, <2>2, UnregisteredKeeps
<1>3. CASE ~att.io
  <2>1. /\ att' = [att EXCEPT !.removed = @ \cup {id}] /\ stack' = stack /\ hooks' = hooks
        /\ att.held
    BY <1>1, <1>3 DEF UnregisterDisconnect, Calling
  <2>2. att \in AttType /\ Stacked(stack) /\ stack \in Seq(FrameType)
    BY InvFields
  <2>3. /\ att' \in AttType /\ att'.notify = att.notify /\ att'.disconn = att.disconn
        /\ att'.removed = att.removed \cup {id} /\ att'.for = att.for
        /\ att'.next_reg_id = att.next_reg_id /\ att'.io = att.io /\ att'.held = att.held
        /\ att'.freed = att.freed
    BY <2>1, <2>2 DEF AttType
  <2>4. ~Ending(att, stack) /\ SameWalks(stack, stack') /\ Quiet(stack, stack')
    BY <2>1, <2>2, HeldIs, SameStack
  <2>5. ~Ending(att', stack') /\ (Ending(att, stack) => Ending(att', stack'))
    BY <2>1, <2>3, <2>4 DEF Ending
  <2>6. Types'
    BY <1>1, <2>1, <2>3 DEF HandlersInv, Types
  <2>7. Shape(att', stack')
    <3>1. \A i \in Levels(stack) : FrameFits(att, stack, i)
      BY DEF HandlersInv, Shape
    <3>2. \A i \in Levels(stack) : FrameFits(att', stack, i)
      BY <3>1, <2>1, <2>3, <2>4, <2>5 DEF FrameFits
    <3> QED
      BY <3>2, <2>1, <2>3, <2>5 DEF HandlersInv, Shape
  <2>8. Placed(att', stack') /\ Hooked(att', stack', hooks')
    <3>1. Placed(att, stack) /\ Hooked(att, stack, hooks)
      BY DEF HandlersInv
    <3>2. Placed(att', stack') /\ Hooked(att', stack', hooks)
      BY <3>1, <2>3, <2>4, PlacedStays
    <3> QED
      BY <3>2, <2>1
  <2>9. Known(att', stack', given')
    <3>1. Known(att, stack, given) /\ id \notin ToSet(att.notify)
      BY <1>1 DEF HandlersInv, Placed
    <3> QED
      BY <3>1, <1>1, <2>1, <2>3 DEF Known
  <2>10. Contract(att', stack', crashed', misused')
    <3>1. Contract(att, stack, crashed, misused)
      BY DEF HandlersInv
    <3>2. ~misused' => ~misused /\ ~crashed'
      BY <3>1, <1>1 DEF Contract
    <3> QED
      BY <3>1, <3>2, <2>3, <2>4, <2>5, ContractStays
  <2>11. Telling(att', stack', told', given')
    BY <1>1, <2>3, <2>4, <2>5, TellingStays DEF HandlersInv
  <2>12. Offering(att', stack', given')
    BY <1>1, <2>3, <2>4, OfferingStays DEF HandlersInv
  <2> QED
    BY <2>6, <2>7, <2>8, <2>9, <2>10, <2>11, <2>12 DEF HandlersInv
<1> QED
  BY <1>2, <1>3

\* A series as a frame.
LEMMA SeriesIs ==
    ASSUME NEW todo \in Todos
    PROVE  /\ Series(todo) \in FrameType /\ Series(todo).kind = "series"
           /\ Series(todo).at = None /\ Series(todo).entry = None
           /\ Series(todo).rest = <<>> /\ Series(todo).todo = todo /\ Series(todo).due = {}
<1>1. /\ "series" \in Kinds /\ None \in Ids \cup {None, SomeOp} /\ "none" \in Received \cup {"none"}
      /\ None \in Ids \cup {None} /\ {} \in SUBSET Ids
  BY DEF Kinds
<1> QED
  BY <1>1, FrameIs DEF Series

\* bt_att_unregister_all.
LEMMA UnregisterAllKeeps ==
    ASSUME HandlersInv, UnregisterAll
    PROVE  HandlersInv'
<1> DEFINE f == Series(<<"notify", "disconn">>)
<1>1. /\ stack' = Append(stack, f) /\ att.held /\ att' = att /\ crashed' = crashed
      /\ hooks' = hooks /\ told' = told /\ given' = given /\ misused' = misused
  BY DEF UnregisterAll, Calling, history
<1>2. Stacked(stack) /\ stack \in Seq(FrameType)
  BY InvFields
<1>3. <<"notify", "disconn">> \in Alls /\ <<"notify", "disconn">> \in Todos
  BY DEF Alls, Todos
<1>4. /\ f \in FrameType /\ f.kind = "series" /\ f.entry = None /\ f.rest = <<>>
      /\ f.todo = <<"notify", "disconn">>
  BY <1>3, SeriesIs
<1> HIDE DEF f
<1>5. Pushed(stack, stack', f)
  BY <1>1, <1>2, <1>4, PushIs
<1>6. ~Ending(att, stack)
  BY <1>1, HeldIs
<1>7. Shape(att', stack') /\ ~Ending(att', stack') /\ SameWalks(stack, stack') /\ Quiet(stack, stack')
  <2>1. Shape(att, stack)
    BY DEF HandlersInv
  <2> QED
    BY <2>1, <1>1, <1>2, <1>3, <1>4, <1>5, <1>6, ShapePushed, ZenonT(30)
<1>8. Types'
  BY <1>1, <1>5 DEF HandlersInv, Types, Pushed, Stacked
<1>9. Placed(att', stack') /\ Hooked(att', stack', hooks')
  BY <1>1, <1>7, PlacedStays DEF HandlersInv
<1>10. Known(att', stack', given')
  <2>1. Known(att, stack, given)
    BY DEF HandlersInv
  <2>2. \A i \in Levels(stack') : stack'[i].entry < att.next_reg_id
    BY <2>1, <1>4, <1>5, InvFields, Numbers DEF Known, Pushed
  <2> QED
    BY <2>1, <2>2, <1>1, <1>7, KnownStays
<1>11. Contract(att', stack', crashed', misused')
  <2>1. Contract(att, stack, crashed, misused)
    BY DEF HandlersInv
  <2>2. ~misused' => ~misused /\ ~crashed'
    BY <2>1, <1>1 DEF Contract
  <2> QED
    BY <2>1, <2>2, <1>1, <1>7, ContractStays
<1>12. Telling(att', stack', told', given')
  BY <1>1, <1>6, <1>7, TellingStays DEF HandlersInv
<1>13. Offering(att', stack', given')
  BY <1>1, <1>7, OfferingStays DEF HandlersInv
<1> QED
  BY <1>7, <1>8, <1>9, <1>10, <1>11, <1>12, <1>13 DEF HandlersInv

\* bt_att_unref by the upper layer.
LEMMA UnrefKeeps ==
    ASSUME HandlersInv, Unref
    PROVE  HandlersInv'
<1>1. /\ att' = [att EXCEPT !.held = FALSE] /\ att.held /\ crashed' = crashed /\ ~crashed
      /\ hooks' = hooks /\ told' = told /\ given' = given
  BY DEF Unref, Calling
<1>2. Stacked(stack) /\ stack \in Seq(FrameType) /\ att \in AttType
  BY InvFields
<1>3. /\ att' \in AttType /\ att'.notify = att.notify /\ att'.disconn = att.disconn
      /\ att'.removed = att.removed /\ att'.for = att.for
      /\ att'.next_reg_id = att.next_reg_id /\ att'.io = att.io /\ ~att'.held
      /\ att'.freed = att.freed
  BY <1>1, <1>2 DEF AttType
<1>4. ~Ending(att, stack) /\ ~att.freed /\ \A i \in Levels(stack) : stack[i].todo \notin Frees
  BY <1>1, HeldIs
<1>5. \A i \in Levels(stack) : FrameFits(att, stack, i)
  BY DEF HandlersInv, Shape
<1>6. /\ Placed(att, stack) /\ Hooked(att, stack, hooks) /\ Known(att, stack, given)
      /\ Contract(att, stack, crashed, misused) /\ Telling(att, stack, told, given)
      /\ Offering(att, stack, given)
  BY DEF HandlersInv
<1>7. CASE Referenced(stack)
  <2>1. stack' = stack /\ misused' = misused
    BY <1>7 DEF Unref
  <2>2. SameWalks(stack, stack') /\ Quiet(stack, stack')
    BY <1>2, <2>1, SameStack
  <2>3. ~Ending(att', stack') /\ (Ending(att, stack) => Ending(att', stack'))
    BY <1>3, <1>4, <2>1 DEF Ending
  <2>4. Types'
    BY <1>1, <1>3, <2>1 DEF HandlersInv, Types
  <2>5. Shape(att', stack')
    <3>1. \A i \in Levels(stack) : FrameFits(att', stack, i)
      BY <1>3, <1>5, <2>1, <2>3 DEF FrameFits
    <3> QED
      BY <3>1, <1>3, <1>4, <2>1, <2>3 DEF Shape
  <2>6. Placed(att', stack') /\ Hooked(att', stack', hooks)
    BY <1>3, <1>6, <2>2, PlacedStays
  <2>7. Known(att', stack', given)
    BY <1>3, <1>6, <2>1 DEF Known
  <2>8. ~misused' => ~misused /\ ~crashed'
    BY <1>1, <2>1
  <2>9. Contract(att', stack', crashed', misused')
    BY <1>3, <1>6, <2>2, <2>3, <2>8, ContractStays
  <2>10. Telling(att', stack', told, given)
    BY <1>3, <1>6, <2>2, <2>3, TellingStays
  <2>11. Offering(att', stack', given)
    BY <1>3, <1>6, <2>2, OfferingStays
  <2> QED
    BY <1>1, <2>4, <2>5, <2>6, <2>7, <2>9, <2>10, <2>11 DEF HandlersInv
<1>8. CASE ~Referenced(stack)
  <2> DEFINE f == Series(Release)
  <2>1. /\ stack' = Append(stack, f)
        /\ misused' = (misused \/ \E i \in DOMAIN stack :
                          stack[i].kind = "ops" \/ stack[i].todo # <<>>)
    BY <1>8 DEF Unref
  <2>2. Release \in Frees /\ Release # <<"free">> /\ Release # <<"disconn", "free">>
        /\ Release \in Todos /\ Release \notin Unrefs /\ Release # <<>>
    <3>1. Release \in Frees /\ Release \in Todos
      BY DEF Release, Frees, Todos
    <3>2. Release # <<"free">> /\ Release # <<"disconn", "free">>
      BY Tuples DEF Release
    <3> QED
      BY <3>1, <3>2, TodoIs
  <2>3. /\ f \in FrameType /\ f.kind = "series" /\ f.entry = None /\ f.rest = <<>>
        /\ f.todo = Release
    BY <2>2, SeriesIs
  <2> HIDE DEF f
  <2>4. Pushed(stack, stack', f)
    BY <1>2, <2>1, <2>3, PushIs
  <2>5. \A i \in Levels(stack) : stack[i].kind \notin {"notify", "disconn"}
                                 /\ stack[i].todo \notin Unrefs
    BY <1>2, <1>8, ReferencedIs
  <2>6. SameWalks(stack, stack') /\ Quiet(stack, stack')
    BY <1>2, <2>3, <2>4 DEF SameWalks, Quiet, Pushed
  <2>7. Ending(att', stack')
    BY <2>2, <2>3, <2>4 DEF Ending, Pushed
  <2>8. misused' \in BOOLEAN
    BY <2>1 DEF HandlersInv, Types
  <2>9. Types'
    BY <1>1, <1>3, <2>4, <2>8 DEF HandlersInv, Types, Pushed, Stacked
  <2>10. Shape(att', stack')
    <3>1. ASSUME NEW i \in Levels(stack) PROVE FrameFits(att', stack', i)
      <4>1. stack'[i] = stack[i] /\ stack[i].todo \notin Frees /\ stack[i].todo \notin Unrefs
            /\ stack[i].kind \notin {"notify", "disconn"} /\ FrameFits(att, stack, i)
        BY <1>4, <1>5, <2>4, <2>5 DEF Pushed
      <4> QED
        BY <4>1, <1>3 DEF FrameFits, Frees
    <3>2. FrameFits(att', stack', Len(stack'))
      <4>1. stack'[Len(stack')] = f
        BY <2>4 DEF Pushed
      <4> QED
        BY <4>1, <2>2, <2>3 DEF FrameFits
    <3>3. \A i \in Levels(stack') : i \in Levels(stack) \/ i = Len(stack')
      BY <2>4 DEF Pushed
    <3> QED
      BY <3>1, <3>2, <3>3, <1>3, <1>4 DEF Shape
  <2>11. Placed(att', stack') /\ Hooked(att', stack', hooks)
    BY <1>3, <1>6, <2>6, PlacedStays
  <2>12. Known(att', stack', given)
    <3>1. \A i \in Levels(stack') : stack'[i].entry < att.next_reg_id
      BY <1>6, <2>3, <2>4, InvFields, Numbers DEF Known, Pushed
    <3> QED
      BY <3>1, <1>3, <1>6, <2>6, KnownStays
  <2>13. Contract(att', stack', crashed', misused')
    <3>1. \A i \in Levels(stack') : stack'[i].kind \notin {"notify", "disconn"}
      BY <2>3, <2>4, <2>5 DEF Pushed
    <3>2. ~misused' => \A i \in Levels(stack) : stack[i].kind # "ops" /\ stack[i].todo = <<>>
      BY <1>2, <2>1 DEF Stacked
    <3>3. \A i \in Levels(stack) : stack[i].kind \in Kinds
      BY <1>2 DEF Stacked
    <3>4. ~misused' => \A i \in Levels(stack') :
             /\ stack'[i].kind \in {"series", "one"}
             /\ stack'[i].todo # <<>> => i = Len(stack') /\ stack'[i].todo \in Frees
      BY <3>2, <3>3, <2>2, <2>3, <2>4, <2>5 DEF Pushed, Kinds
    <3>5. ~att'.freed /\ ~crashed'
      BY <1>1, <1>3, <1>4
    <3> QED
      BY <3>1, <3>4, <3>5 DEF Contract
  <2>14. Telling(att', stack', told, given)
    BY <1>3, <1>6, <2>6, <2>7, TellingStays
  <2>15. Offering(att', stack', given)
    BY <1>3, <1>6, <2>6, OfferingStays
  <2> QED
    BY <1>1, <2>9, <2>10, <2>11, <2>12, <2>13, <2>14, <2>15 DEF HandlersInv
<1> QED
  BY <1>7, <1>8

\* handle_notify starts.
LEMMA ReceiveKeeps ==
    ASSUME HandlersInv, NEW op \in Received, Receive(op)
    PROVE  HandlersInv'
<1> DEFINE due == {i \in ToSet(att.notify) : Match(i, op)}
           f == Frame("notify", None, op, FirstOf(att.notify), <<>>, due)
<1>1. /\ stack = <<>> /\ ~crashed /\ ~att.freed /\ att.io /\ stack' = <<f>>
      /\ att' = att /\ crashed' = crashed /\ hooks' = hooks /\ told' = told
      /\ given' = given /\ misused' = misused
  BY DEF Receive, history
<1>2. Stacked(stack) /\ att.notify \in Seq(Ids) /\ due \subseteq ToSet(att.notify)
      /\ due \subseteq Ids /\ Levels(stack) = {}
  BY <1>1, InvFields DEF Stacked
<1> HIDE DEF due
<1>3. FirstOf(att.notify) \in Ids \cup {None} /\ <<>> \in Todos
  BY <1>2, FirstIs DEF Todos, Alls
<1>4. /\ f \in FrameType /\ f.kind = "notify" /\ f.at = None /\ f.entry = FirstOf(att.notify)
      /\ f.rest = <<>> /\ f.todo = <<>> /\ f.due = due
  <2>1. "notify" \in Kinds /\ op \in Received \cup {"none"} /\ None \in Ids \cup {None, SomeOp}
        /\ due \in SUBSET Ids
    BY <1>2 DEF Kinds
  <2> QED
    BY <2>1, <1>3, FrameIs
<1> HIDE DEF f
<1>5. Pushed(stack, stack', f) /\ Len(stack') = 1
  <2>1. Pushed(stack, stack', f)
    BY <1>1, <1>4, FirstPushed
  <2> QED
    BY <2>1, <1>1 DEF Pushed
<1>6. Levels(stack') = {1} /\ stack'[1] = f /\ Stacked(stack')
  BY <1>2, <1>5 DEF Pushed
<1>7. <<>> \notin Unrefs /\ <<>> \notin Frees
  BY <1>3, TodoIs DEF Alls
<1>8. ~Ending(att, stack') /\ ~Ending(att, stack)
  BY <1>1, <1>2, <1>4, <1>6, <1>7 DEF Ending
<1>9. Types'
  BY <1>1, <1>6 DEF HandlersInv, Types, Stacked
<1>10. Shape(att', stack')
  <2>1. FrameFits(att, stack', 1)
    BY <1>4, <1>6, <1>7, <1>8, Tuples DEF FrameFits, Frees
  <2> QED
    BY <2>1, <1>1, <1>6, <1>8 DEF Shape
<1>11. Quiet(stack, stack')
  BY <1>2, <1>4, <1>6 DEF Quiet
<1>12. Placed(att, stack') /\ Hooked(att, stack', hooks)
  BY <1>11, PlacedStays DEF HandlersInv
<1>13. Known(att, stack', given)
  <2>1. Known(att, stack, given)
    BY DEF HandlersInv
  <2>2. f.entry < att.next_reg_id
    BY <2>1, <1>2, <1>4, FirstIs, InvFields, Numbers DEF Known
  <2> QED
    BY <2>1, <2>2, <1>6, <1>11, KnownStays
<1>14. Contract(att, stack', crashed', misused')
  <2>1. Entered(att.notify, f.entry)
    BY <1>2, <1>4, FirstIs
  <2> QED
    BY <2>1, <1>1, <1>4, <1>6, <1>8 DEF Contract
<1>15. Telling(att, stack', told, given)
  <2>1. Telling(att, stack, told, given)
    BY DEF HandlersInv
  <2> QED
    BY <2>1, <1>1, <1>4, <1>6, <1>8 DEF Telling
<1>16. Offering(att, stack', given)
  <2>1. Behind(att.notify, f.entry) = ToSet(att.notify)
        /\ (f.entry = None => att.notify = <<>>)
    BY <1>2, <1>4, FirstIs
  <2> QED
    BY <2>1, <1>2, <1>4, <1>6, EmptyList DEF Offering
<1> QED
  BY <1>1, <1>9, <1>10, <1>12, <1>13, <1>14, <1>15, <1>16 DEF HandlersInv

\* disconnect_cb starts.
LEMMA DisconnectKeeps ==
    ASSUME HandlersInv, Disconnect
    PROVE  HandlersInv'
<1>1. PICK at \in {None, SomeOp} : stack' = <<Frame("ops", at, "none", None, <<>>, {})>>
  BY DEF Disconnect
<1> DEFINE f == Frame("ops", at, "none", None, <<>>, {})
<1>2. /\ stack = <<>> /\ ~crashed /\ ~att.freed /\ att.io /\ stack' = <<f>>
      /\ att' = [att EXCEPT !.io = FALSE] /\ crashed' = crashed /\ hooks' = hooks
      /\ told' = told /\ given' = given /\ misused' = misused
  BY <1>1 DEF Disconnect, history
<1>3. Stacked(stack) /\ att \in AttType /\ Levels(stack) = {}
  BY <1>2, InvFields DEF Stacked
<1>4. /\ att' \in AttType /\ att'.notify = att.notify /\ att'.disconn = att.disconn
      /\ att'.removed = att.removed /\ att'.for = att.for
      /\ att'.next_reg_id = att.next_reg_id /\ ~att'.io /\ att'.held = att.held
      /\ att'.freed = att.freed
  BY <1>2, <1>3 DEF AttType
<1>5. <<>> \in Todos /\ <<>> \notin Unrefs /\ <<>> \notin Frees
  <2>1. <<>> \in Todos /\ <<>> \in Alls
    BY DEF Todos, Alls
  <2> QED
    BY <2>1, TodoIs
<1>6. /\ f \in FrameType /\ f.kind = "ops" /\ f.entry = None
      /\ f.rest = <<>> /\ f.todo = <<>> /\ f.due = {}
  <2>1. "ops" \in Kinds /\ "none" \in Received \cup {"none"} /\ at \in Ids \cup {None, SomeOp}
        /\ {} \in SUBSET Ids /\ None \in Ids \cup {None} /\ <<>> \in Todos
    BY <1>5 DEF Kinds
  <2> QED
    BY <2>1, <1>5, EmptyList DEF Frame, FrameType, Todos
<1> HIDE DEF f
<1>7. Pushed(stack, stack', f) /\ Len(stack') = 1
  <2>1. Pushed(stack, stack', f)
    BY <1>2, <1>6, FirstPushed
  <2> QED
    BY <2>1, <1>2 DEF Pushed
<1>8. Levels(stack') = {1} /\ stack'[1] = f /\ Stacked(stack')
  BY <1>3, <1>7 DEF Pushed
<1>9. ~Ending(att', stack') /\ ~Ending(att, stack)
  BY <1>2, <1>3, <1>4, <1>5, <1>6, <1>8 DEF Ending
<1>10. Types'
  BY <1>2, <1>4, <1>8 DEF HandlersInv, Types, Stacked
<1>11. Shape(att', stack')
  <2>1. FrameFits(att', stack', 1)
    BY <1>4, <1>5, <1>6, <1>8, <1>9, Tuples DEF FrameFits, Frees
  <2> QED
    BY <2>1, <1>2, <1>4, <1>8, <1>9 DEF Shape
<1>12. Quiet(stack, stack')
  BY <1>3, <1>6, <1>8 DEF Quiet
<1>13. Placed(att', stack') /\ Hooked(att', stack', hooks)
  BY <1>4, <1>12, PlacedStays DEF HandlersInv
<1>14. Known(att', stack', given)
  <2>1. Known(att, stack, given)
    BY DEF HandlersInv
  <2>2. f.entry < att.next_reg_id
    BY <1>6, InvFields, Numbers
  <2> QED
    BY <2>1, <2>2, <1>4, <1>8, <1>12, KnownStays
<1>15. Contract(att', stack', crashed', misused')
  BY <1>2, <1>4, <1>6, <1>8, <1>9 DEF Contract
<1>16. Telling(att', stack', told, given)
  <2>1. Telling(att, stack, told, given)
    BY DEF HandlersInv
  <2> QED
    BY <2>1, <1>2, <1>4, <1>6, <1>8, <1>9 DEF Telling
<1>17. Offering(att', stack', given)
  BY <1>6, <1>8 DEF Offering
<1> QED
  BY <1>2, <1>10, <1>11, <1>13, <1>14, <1>15, <1>16, <1>17 DEF HandlersInv

\* The innermost function stays the function it is.
LEMMA ShapeChanged ==
    ASSUME NEW a, NEW s, NEW t, NEW f, Changed(s, t, f), Shape(a, s),
           f.kind = s[Len(s)].kind, f.todo = s[Len(s)].todo,
           f.kind # "series" => f.rest = <<>>
    PROVE  Shape(a, t) /\ (Ending(a, t) <=> Ending(a, s))
<1>1. \A i \in Levels(s) : t[i].kind = s[i].kind /\ t[i].todo = s[i].todo
  BY DEF Changed
<1>2. Ending(a, t) <=> Ending(a, s)
  BY <1>1 DEF Ending, Changed
<1>3. \A i \in Levels(s) : FrameFits(a, s, i)
  BY DEF Shape
<1>4. \A i \in Levels(s) : t[i].kind # "series" => t[i].rest = <<>>
  BY <1>3 DEF FrameFits, Changed
<1>5. \A i \in Levels(s) : FrameFits(a, t, i)
  BY <1>1, <1>2, <1>3, <1>4 DEF FrameFits, Changed
<1> QED
  BY <1>2, <1>5 DEF Shape, Changed

\* With another entry the contract is kept where the walk may go on.
LEMMA ContractChanged ==
    ASSUME NEW a, NEW s, NEW t, NEW f, NEW c, NEW m, Changed(s, t, f), Contract(a, s, c, m),
           f.kind = s[Len(s)].kind, f.todo = s[Len(s)].todo, Ending(a, t) <=> Ending(a, s),
           f.kind = "disconn" => Entered(a.disconn, f.entry),
           ~m /\ f.kind = "notify" => Entered(a.notify, f.entry)
    PROVE  Contract(a, t, c, m)
<1>1. \A i \in Levels(s) : t[i].kind = s[i].kind /\ t[i].todo = s[i].todo
  BY DEF Changed
<1>2. \A i \in Levels(s) : t[i].kind = "disconn" => Entered(a.disconn, t[i].entry)
  BY DEF Changed, Contract
<1>3. ~m => \A i \in Levels(s) : t[i].kind = "notify" => Entered(a.notify, t[i].entry)
  BY DEF Changed, Contract
<1> QED
  BY <1>1, <1>2, <1>3 DEF Changed, Contract

\* A callback returns.
LEMMA ReturnKeeps ==
    ASSUME HandlersInv, Return
    PROVE  HandlersInv'
<1> DEFINE n == Len(stack)
           f == [stack[n] EXCEPT !.at = None]
<1>1. /\ stack # <<>> /\ stack' = [stack EXCEPT ![n] = f]
      /\ att' = att /\ crashed' = crashed /\ hooks' = hooks /\ told' = told
      /\ given' = given /\ misused' = misused
  BY DEF Return, history, Top, WithTop
<1>2. Stacked(stack) /\ stack \in Seq(FrameType) /\ n \in Levels(stack)
  BY <1>1, InvFields DEF Stacked
<1>3. stack[n] \in FrameType
  BY <1>2 DEF Stacked
<1>4. /\ f \in FrameType /\ f.kind = stack[n].kind /\ f.todo = stack[n].todo
      /\ f.rest = stack[n].rest /\ f.entry = stack[n].entry /\ f.due = stack[n].due
  BY <1>3 DEF FrameType
<1> HIDE DEF f, n
<1>5. Changed(stack, stack', f)
  BY <1>1, <1>2, <1>4, TopSetIs DEF n
<1>6. /\ Shape(att, stack) /\ Placed(att, stack) /\ Hooked(att, stack, hooks)
      /\ Known(att, stack, given) /\ Contract(att, stack, crashed, misused)
      /\ Telling(att, stack, told, given) /\ Offering(att, stack, given)
  BY DEF HandlersInv
<1>7. f.kind # "series" => f.rest = <<>>
  BY <1>2, <1>4, <1>6 DEF Shape, FrameFits
<1>8. Shape(att, stack') /\ (Ending(att, stack') <=> Ending(att, stack))
  BY <1>4, <1>5, <1>6, <1>7, ShapeChanged DEF n
<1>9. SameWalks(stack, stack') /\ Quiet(stack, stack')
  BY <1>2, <1>4, <1>5 DEF SameWalks, Quiet, Changed, n
<1>10. Types'
  BY <1>1, <1>5 DEF HandlersInv, Types, Changed, Stacked
<1>11. Placed(att, stack') /\ Hooked(att, stack', hooks)
  BY <1>6, <1>9, PlacedStays
<1>12. Known(att, stack', given)
  <2>1. \A i \in Levels(stack') : stack'[i].entry < att.next_reg_id
    BY <1>4, <1>5, <1>6 DEF Known, Changed, n
  <2> QED
    BY <2>1, <1>6, <1>9, KnownStays
<1>13. Contract(att, stack', crashed, misused)
  <2>1. /\ f.kind = "disconn" => Entered(att.disconn, f.entry)
        /\ ~misused /\ f.kind = "notify" => Entered(att.notify, f.entry)
    BY <1>2, <1>4, <1>6 DEF Contract
  <2> QED
    BY <2>1, <1>4, <1>5, <1>6, <1>8, ContractChanged DEF n
<1>14. Telling(att, stack', told, given)
  BY <1>6, <1>8, <1>9, TellingStays
<1>15. Offering(att, stack', given)
  BY <1>6, <1>9, OfferingStays
<1> QED
  BY <1>1, <1>8, <1>10, <1>11, <1>12, <1>13, <1>14, <1>15 DEF HandlersInv

\* A function that has nothing more to do is over.
LEMMA OverKeeps ==
    ASSUME HandlersInv, stack # <<>>, Top.kind \in {"series", "one"},
           Top.rest = <<>>, Top.todo = <<>>, stack' = Front(stack),
           UNCHANGED <<att, crashed, hooks, told, given, misused>>
    PROVE  HandlersInv'
<1> DEFINE n == Len(stack)
<1>1. /\ att' = att /\ crashed' = crashed /\ hooks' = hooks /\ told' = told
      /\ given' = given /\ misused' = misused
  OBVIOUS
<1>2. Stacked(stack) /\ stack \in Seq(FrameType) /\ n \in Levels(stack)
  BY InvFields DEF Stacked
<1>3. stack[n].kind \in {"series", "one"} /\ stack[n].rest = <<>> /\ stack[n].todo = <<>>
  BY DEF Top
<1> HIDE DEF n
<1>4. Popped(stack, stack')
  BY <1>2, FrontIs
<1>5. /\ Shape(att, stack) /\ Placed(att, stack) /\ Hooked(att, stack, hooks)
      /\ Known(att, stack, given) /\ Contract(att, stack, crashed, misused)
      /\ Telling(att, stack, told, given) /\ Offering(att, stack, given)
  BY DEF HandlersInv
<1>6. SameWalks(stack, stack') /\ Quiet(stack, stack')
  BY <1>2, <1>3, <1>4 DEF SameWalks, Quiet, Popped, n
<1>7. <<>> \notin Frees
  BY TodoIs DEF Todos, Alls
<1>8. Ending(att, stack') <=> Ending(att, stack)
  BY <1>3, <1>4, <1>7 DEF Ending, Popped, n
<1>9. \A i \in Levels(stack') : /\ stack'[i] = stack[i] /\ i \in Levels(stack) /\ i # n
                                /\ FrameFits(att, stack, i) /\ stack[i].todo \notin Frees
  BY <1>4, <1>5 DEF Shape, FrameFits, Popped, n
<1>10. Shape(att, stack')
  <2>1. \A i \in Levels(stack') : FrameFits(att, stack', i)
    BY <1>8, <1>9 DEF FrameFits, Frees
  <2> QED
    BY <2>1, <1>5, <1>8 DEF Shape
<1>11. Types'
  BY <1>1, <1>4 DEF HandlersInv, Types, Popped, Stacked
<1>12. Placed(att, stack') /\ Hooked(att, stack', hooks)
  BY <1>5, <1>6, PlacedStays
<1>13. Known(att, stack', given)
  <2>1. \A i \in Levels(stack') : stack'[i].entry < att.next_reg_id
    BY <1>5, <1>9 DEF Known
  <2> QED
    BY <2>1, <1>5, <1>6, KnownStays
<1>14. Contract(att, stack', crashed, misused)
  BY <1>5, <1>8, <1>9 DEF Contract, n
<1>15. Telling(att, stack', told, given)
  BY <1>5, <1>6, <1>8, TellingStays
<1>16. Offering(att, stack', given)
  BY <1>5, <1>6, OfferingStays
<1> QED
  BY <1>1, <1>10, <1>11, <1>12, <1>13, <1>14, <1>15, <1>16 DEF HandlersInv

\* The end of bt_att_unregister and of bt_att_unregister_disconnect.
LEMMA OneDoneKeeps ==
    ASSUME HandlersInv, OneDone
    PROVE  HandlersInv'
<1>1. /\ stack # <<>> /\ Top.kind = "one" /\ stack' = Front(stack)
      /\ UNCHANGED <<att, crashed, hooks, told, given, misused>>
  BY DEF OneDone, Going, history
<1>2. Stacked(stack) /\ Len(stack) \in Levels(stack)
  BY <1>1, InvFields DEF Stacked
<1>3. Top.rest = <<>> /\ Top.todo = <<>>
  BY <1>1, <1>2 DEF HandlersInv, Shape, FrameFits, Top
<1> QED
  BY <1>1, <1>3, OverKeeps

\* A function the loop has called, when it goes on, is alone on the stack,
\* and the bearer is there.
LEMMA LoopTop ==
    ASSUME HandlersInv, stack # <<>>, Top.kind \in {"notify", "ops", "disconn"}, ~att.freed
    PROVE  /\ Len(stack) = 1 /\ Levels(stack) = {1} /\ stack[1] = Top
           /\ Top \in FrameType /\ Top.rest = <<>> /\ Top.todo = <<>>
           /\ ~Ending(att, stack)
<1>1. Stacked(stack) /\ Len(stack) \in Levels(stack)
  BY InvFields DEF Stacked
<1>2. FrameFits(att, stack, Len(stack))
  BY <1>1 DEF HandlersInv, Shape
<1>3. Len(stack) = 1 /\ Top.rest = <<>> /\ Top.todo = <<>>
  BY <1>2 DEF FrameFits, Top
<1>4. Levels(stack) = {1}
  BY <1>3 DEF Levels
<1>5. stack[1] = Top /\ Top \in FrameType
  BY <1>1, <1>3 DEF Top, Stacked
<1>6. <<>> \notin Frees
  BY TodoIs DEF Todos, Alls
<1>7. ~Ending(att, stack)
  BY <1>3, <1>4, <1>5, <1>6 DEF Ending
<1> QED
  BY <1>3, <1>4, <1>5, <1>7

\* A single function has become another one.
LEMMA LoneKeeps ==
    ASSUME HandlersInv, stack # <<>>, Levels(stack) = {1}, Len(stack) = 1, ~Ending(att, stack),
           stack[1].rest = <<>>, NEW f \in FrameType, stack' = WithTop(f), f.rest = <<>>,
           att' = att, crashed' = crashed, hooks' = hooks, given' = given, misused' = misused,
           told' \in [Ids -> Nat],
           f.kind # "series" => f.todo = <<>>, f.todo \in Alls \cup Unrefs,
           f.kind \in {"ops", "disconn"} \/ f.todo \in Unrefs \ {<<"unref">>} => ~att.io,
           f.kind = "disconn" => Entered(att.disconn, f.entry),
           ~misused /\ f.kind = "notify" => Entered(att.notify, f.entry),
           f.entry < att.next_reg_id
    PROVE  /\ Types' /\ Shape(att', stack') /\ Placed(att', stack')
           /\ Hooked(att', stack', hooks') /\ Known(att', stack', given')
           /\ Contract(att', stack', crashed', misused')
           /\ ~Ending(att, stack') /\ Levels(stack') = {1} /\ stack'[1] = f
<1>1. Stacked(stack) /\ stack \in Seq(FrameType) /\ stack' = [stack EXCEPT ![Len(stack)] = f]
  BY InvFields DEF WithTop
<1>2. Changed(stack, stack', f)
  BY <1>1, TopSetIs
<1>3. Levels(stack') = {1} /\ stack'[1] = f /\ Len(stack') = 1 /\ Stacked(stack')
  BY <1>2 DEF Changed
<1>4. /\ Shape(att, stack) /\ Placed(att, stack) /\ Hooked(att, stack, hooks)
      /\ Known(att, stack, given) /\ Contract(att, stack, crashed, misused)
  BY DEF HandlersInv
<1>5. Quiet(stack, stack')
  BY <1>1, <1>3 DEF Quiet
<1>6. f.todo \notin Frees
  BY TodoIs DEF Todos
<1>7. ~Ending(att, stack') /\ ~att.freed
  BY <1>3, <1>6 DEF Ending
<1>8. FrameFits(att, stack', 1)
  BY <1>3, <1>6, <1>7 DEF FrameFits, Frees
<1>9. Shape(att, stack')
  BY <1>3, <1>7, <1>8 DEF Shape
<1>10. Types'
  BY <1>3 DEF HandlersInv, Types, Stacked
<1>11. Placed(att, stack') /\ Hooked(att, stack', hooks)
  BY <1>4, <1>5, PlacedStays
<1>12. Known(att, stack', given)
  BY <1>3, <1>4, <1>5, KnownStays
<1>13. Contract(att, stack', crashed, misused)
  BY <1>3, <1>4, <1>7 DEF Contract
<1> QED
  BY <1>3, <1>7, <1>9, <1>10, <1>11, <1>12, <1>13

\* Nothing is behind the end.
LEMMA BehindNone ==
    ASSUME NEW list \in Seq(Ids)
    PROVE  Behind(list, None) = {}
<1>1. \A k \in 1 .. Len(list) : list[k] # None
  BY Elements, Numbers
<1> QED
  BY <1>1, BehindIs DEF Behind

\* handle_notify goes on.
LEMMA NotifyTurnKeeps ==
    ASSUME HandlersInv, NotifyTurn
    PROVE  HandlersInv'
<1>1. /\ stack # <<>> /\ Top.kind = "notify" /\ ~att.freed
      /\ att' = att /\ crashed' = crashed /\ hooks' = hooks /\ told' = told
      /\ given' = given /\ misused' = misused
  BY DEF NotifyTurn, Going, history
<1>2. /\ Len(stack) = 1 /\ Levels(stack) = {1} /\ stack[1] = Top
      /\ Top \in FrameType /\ Top.rest = <<>> /\ Top.todo = <<>>
      /\ ~Ending(att, stack)
  BY <1>1, LoopTop
<1>3. told' \in [Ids -> Nat] /\ att.notify \in Seq(Ids) /\ Distinct(att.notify)
  BY <1>1, InvFields DEF HandlersInv, Types
<1>4. /\ Known(att, stack, given) /\ Telling(att, stack, told, given)
      /\ Offering(att, stack, given) /\ Contract(att, stack, crashed, misused)
  BY DEF HandlersInv
<1>5. CASE NotifyOver /\ stack' = WithTop(Series(<<"unref">>))
  <2> DEFINE f == Series(<<"unref">>)
  <2>1. <<"unref">> \in Unrefs /\ <<"unref">> \in Todos
    BY DEF Unrefs, Todos
  <2>2. /\ f \in FrameType /\ f.kind = "series" /\ f.entry = None /\ f.rest = <<>>
        /\ f.todo = <<"unref">>
    BY <2>1, SeriesIs
  <2>3. stack' = WithTop(f) /\ None < att.next_reg_id
    BY <1>5, InvFields, Numbers
  <2> HIDE DEF f
  <2>4. /\ Types' /\ Shape(att', stack') /\ Placed(att', stack')
        /\ Hooked(att', stack', hooks') /\ Known(att', stack', given')
        /\ Contract(att', stack', crashed', misused')
        /\ ~Ending(att, stack') /\ Levels(stack') = {1} /\ stack'[1] = f
    BY <1>1, <1>2, <1>3, <2>1, <2>2, <2>3, LoneKeeps
  <2>5. SameReport(stack, stack')
    BY <1>1, <1>2, <2>2, <2>4 DEF SameReport
  <2>6. Telling(att, stack', told, given)
    BY <1>2, <1>4, <2>5, ReportStays
  <2>7. Offering(att, stack', given)
    BY <2>2, <2>4 DEF Offering
  <2> QED
    BY <1>1, <2>4, <2>6, <2>7 DEF HandlersInv
<1>6. CASE ~NotifyOver /\ Top.entry \in ToSet(att.notify)
           /\ stack' = WithTop([Top EXCEPT
                !.entry = NextOf(att.notify, Top.entry),
                !.at = IF Match(Top.entry, Top.op) THEN Top.entry ELSE None,
                !.due = @ \ {Top.entry}])
  <2> DEFINE e == Top.entry
             next == NextOf(att.notify, e)
             f == [Top EXCEPT !.entry = next, !.at = IF Match(e, Top.op) THEN e ELSE None,
                              !.due = @ \ {e}]
  <2>1. /\ next \in Ids \cup {None} /\ Entered(att.notify, next)
        /\ Behind(att.notify, next) = Behind(att.notify, e) \ {e}
        /\ next # None => next \in ToSet(att.notify)
    BY <1>3, <1>6, NextIs
  <2>2. e \in Ids
    BY <1>3, <1>6, Elements
  <2>3. next < att.next_reg_id
    BY <1>4, <2>1, InvFields, Numbers DEF Known
  <2>4. /\ f \in FrameType /\ f.kind = "notify" /\ f.entry = next /\ f.rest = <<>>
        /\ f.todo = <<>> /\ f.due = Top.due \ {e}
    <3>1. (IF Match(e, Top.op) THEN e ELSE None) \in Ids \cup {None, SomeOp}
      BY <2>2
    <3> HIDE DEF next
    <3>2. Top.due \ {e} \subseteq Ids
      BY <1>2 DEF FrameType
    <3> QED
      BY <3>1, <3>2, <1>1, <1>2, <2>1, ZenonT(30) DEF FrameType
  <2>5. stack' = WithTop(f)
    BY <1>6
  <2> HIDE DEF f, next
  <2>6. /\ Types' /\ Shape(att', stack') /\ Placed(att', stack')
        /\ Hooked(att', stack', hooks') /\ Known(att', stack', given')
        /\ Contract(att', stack', crashed', misused')
        /\ ~Ending(att, stack') /\ Levels(stack') = {1} /\ stack'[1] = f
    <3>1. <<>> \in Alls /\ <<>> \notin Unrefs
      BY TodoIs DEF Alls, Todos
    <3> QED
      BY <3>1, <1>1, <1>2, <1>3, <2>1, <2>3, <2>4, <2>5, LoneKeeps
  <2>7. SameReport(stack, stack')
    BY <1>1, <1>2, <2>4, <2>6 DEF SameReport
  <2>8. Telling(att, stack', told, given)
    BY <1>2, <1>4, <2>7, ReportStays
  <2>9. Top.due \subseteq given \cup Behind(att.notify, e)
    BY <1>1, <1>2, <1>4, <1>6 DEF Offering
  <2>10. f.due \subseteq given \cup Behind(att.notify, next)
    BY <2>1, <2>4, <2>9
  <2>11. next = None => Behind(att.notify, next) = {}
    BY <1>3, BehindNone
  <2>12. Behind(att.notify, next) \subseteq ToSet(att.notify)
    BY DEF Behind
  <2>13. Offering(att, stack', given)
    BY <2>4, <2>6, <2>10, <2>11, <2>12 DEF Offering
  <2> QED
    BY <1>1, <2>6, <2>8, <2>13 DEF HandlersInv
<1> QED
  BY <1>5, <1>6 DEF NotifyTurn

\* disconnect_cb goes on when its ops are done.
LEMMA OpsDoneKeeps ==
    ASSUME HandlersInv, OpsDone
    PROVE  HandlersInv'
<1> DEFINE f == Frame("disconn", None, "none", FirstOf(att.disconn), <<>>, {})
<1>1. /\ stack # <<>> /\ Top.kind = "ops" /\ ~att.freed /\ stack' = WithTop(f)
      /\ att' = att /\ crashed' = crashed /\ hooks' = hooks /\ told' = told
      /\ given' = given /\ misused' = misused
  BY DEF OpsDone, Going, history
<1>2. /\ Len(stack) = 1 /\ Levels(stack) = {1} /\ stack[1] = Top
      /\ Top \in FrameType /\ Top.rest = <<>> /\ Top.todo = <<>>
      /\ ~Ending(att, stack)
  BY <1>1, LoopTop
<1>3. told' \in [Ids -> Nat] /\ att.disconn \in Seq(Ids)
  BY <1>1, InvFields DEF HandlersInv, Types
<1>4. /\ Known(att, stack, given) /\ Telling(att, stack, told, given) /\ Shape(att, stack)
  BY DEF HandlersInv
<1>5. <<>> \in Todos /\ <<>> \in Alls /\ <<>> \notin Unrefs
  BY TodoIs DEF Todos, Alls
<1>6. /\ FirstOf(att.disconn) \in Ids \cup {None} /\ Entered(att.disconn, FirstOf(att.disconn))
      /\ FirstOf(att.disconn) # None => FirstOf(att.disconn) \in ToSet(att.disconn)
      /\ Behind(att.disconn, FirstOf(att.disconn)) = ToSet(att.disconn)
  BY <1>3, FirstIs
<1>7. /\ f \in FrameType /\ f.kind = "disconn" /\ f.entry = FirstOf(att.disconn)
      /\ f.rest = <<>> /\ f.todo = <<>> /\ f.due = {}
  <2>1. "disconn" \in Kinds /\ "none" \in Received \cup {"none"} /\ None \in Ids \cup {None, SomeOp}
        /\ {} \in SUBSET Ids
    BY DEF Kinds
  <2> QED
    BY <2>1, <1>5, <1>6, EmptyList DEF Frame, FrameType, Todos
<1>8. FirstOf(att.disconn) < att.next_reg_id
  BY <1>4, <1>6, InvFields, Numbers DEF Known
<1>9. ~att.io
  BY <1>1, <1>2, <1>4 DEF Shape, FrameFits
<1> HIDE DEF f
<1>10. /\ Types' /\ Shape(att', stack') /\ Placed(att', stack')
       /\ Hooked(att', stack', hooks') /\ Known(att', stack', given')
       /\ Contract(att', stack', crashed', misused')
       /\ ~Ending(att, stack') /\ Levels(stack') = {1} /\ stack'[1] = f
  BY <1>1, <1>2, <1>3, <1>5, <1>6, <1>7, <1>8, <1>9, LoneKeeps
<1>11. Telling(att, stack', told, given)
  <2>1. \A id \in Ids : told[id] = 0
    BY <1>1, <1>2, <1>4 DEF Telling
  <2>2. ToSet(att.disconn) \subseteq Ids
    BY <1>3, Elements
  <2> QED
    BY <2>1, <2>2, <1>2, <1>4, <1>6, <1>7, <1>10 DEF Telling
<1>12. Offering(att, stack', given)
  BY <1>7, <1>10 DEF Offering
<1> QED
  BY <1>1, <1>10, <1>11, <1>12 DEF HandlersInv

\* disconnect_cb goes on with the handlers.
LEMMA DisconnTurnKeeps ==
    ASSUME HandlersInv, DisconnTurn
    PROVE  HandlersInv'
<1>1. /\ stack # <<>> /\ Top.kind = "disconn" /\ ~att.freed
      /\ att' = att /\ crashed' = crashed /\ hooks' = hooks
      /\ given' = given /\ misused' = misused
  BY DEF DisconnTurn, Going
<1>2. /\ Len(stack) = 1 /\ Levels(stack) = {1} /\ stack[1] = Top
      /\ Top \in FrameType /\ Top.rest = <<>> /\ Top.todo = <<>>
      /\ ~Ending(att, stack)
  BY <1>1, LoopTop
<1>3. told \in [Ids -> Nat] /\ att.disconn \in Seq(Ids) /\ Distinct(att.disconn)
      /\ ToSet(att.disconn) \subseteq Ids
  BY InvFields DEF HandlersInv, Types
<1>4. /\ Known(att, stack, given) /\ Telling(att, stack, told, given) /\ Shape(att, stack)
  BY DEF HandlersInv
<1>5. ~att.io
  BY <1>1, <1>2, <1>4 DEF Shape, FrameFits
<1>6. CASE /\ att.disconn = <<>> \/ Top.entry = None
           /\ stack' = WithTop(Series(<<"notify", "disconn", "unref">>))
           /\ told' = told
  <2> DEFINE todo == <<"notify", "disconn", "unref">>
             f == Series(todo)
  <2>1. todo \in Unrefs /\ todo \in Todos
    BY DEF Unrefs, Todos
  <2>2. /\ f \in FrameType /\ f.kind = "series" /\ f.entry = None /\ f.rest = <<>>
        /\ f.todo = todo
    BY <2>1, SeriesIs
  <2>3. stack' = WithTop(f) /\ None < att.next_reg_id
    BY <1>6, InvFields, Numbers
  <2> HIDE DEF f, todo
  <2>4. /\ Types' /\ Shape(att', stack') /\ Placed(att', stack')
        /\ Hooked(att', stack', hooks') /\ Known(att', stack', given')
        /\ Contract(att', stack', crashed', misused')
        /\ ~Ending(att, stack') /\ Levels(stack') = {1} /\ stack'[1] = f
    BY <1>1, <1>2, <1>3, <1>5, <1>6, <2>1, <2>2, <2>3, LoneKeeps
  <2>5. \A id \in ToSet(att.disconn) : told[id] = 1 \/ id \in given
    <3>1. Behind(att.disconn, Top.entry) = {}
      BY <1>3, <1>6, BehindNone, EmptyList
    <3> QED
      BY <3>1, <1>1, <1>2, <1>4 DEF Telling
  <2>6. Telling(att, stack', told, given)
    BY <1>2, <1>4, <2>2, <2>4, <2>5 DEF Telling
  <2>7. Offering(att, stack', given)
    BY <2>2, <2>4 DEF Offering
  <2> QED
    BY <1>1, <1>6, <2>4, <2>6, <2>7 DEF HandlersInv
<1>7. CASE /\ Top.entry \in ToSet(att.disconn)
           /\ stack' = WithTop([Top EXCEPT
                !.entry = NextOf(att.disconn, Top.entry),
                !.at = IF Tells(Top.entry) THEN Top.entry ELSE None])
           /\ told' = IF Tells(Top.entry) THEN [told EXCEPT ![Top.entry] = @ + 1] ELSE told
  <2> DEFINE e == Top.entry
             next == NextOf(att.disconn, e)
             f == [Top EXCEPT !.entry = next, !.at = IF Tells(e) THEN e ELSE None]
  <2>1. /\ next \in Ids \cup {None} /\ Entered(att.disconn, next)
        /\ e \in Behind(att.disconn, e)
        /\ Behind(att.disconn, next) = Behind(att.disconn, e) \ {e}
        /\ next # None => next \in ToSet(att.disconn)
    BY <1>3, <1>7, NextIs
  <2>2. e \in Ids
    BY <1>3, <1>7
  <2>3. next < att.next_reg_id
    BY <1>4, <2>1, InvFields, Numbers DEF Known
  <2>4. /\ f \in FrameType /\ f.kind = "disconn" /\ f.entry = next /\ f.rest = <<>>
        /\ f.todo = <<>>
    <3>1. (IF Tells(e) THEN e ELSE None) \in Ids \cup {None, SomeOp}
      BY <2>2
    <3> HIDE DEF next
    <3> QED
      BY <3>1, <1>1, <1>2, <2>1, ZenonT(30) DEF FrameType
  <2>5. stack' = WithTop(f)
    BY <1>7
  <2>6. /\ told[e] = 0
        /\ \A id \in ToSet(att.disconn) :
              IF id \in Behind(att.disconn, e) THEN told[id] = 0 ELSE told[id] = 1 \/ id \in given
    BY <1>1, <1>2, <1>4, <1>7, <2>1 DEF Telling
  <2> HIDE DEF f, next
  <2>7. /\ \A id \in Ids : id # e => told'[id] = told[id]
        /\ IF Tells(e) THEN told'[e] = 1 ELSE told'[e] = 0
        /\ told' \in [Ids -> Nat]
    <3>1. told[e] + 1 = 1
      BY <2>6
    <3> QED
      BY <3>1, <1>3, <1>7, <2>2, <2>6
  <2>8. Tells(e) \/ e \in given
    BY <1>4 DEF Tells, Known
  <2>9. /\ Types' /\ Shape(att', stack') /\ Placed(att', stack')
        /\ Hooked(att', stack', hooks') /\ Known(att', stack', given')
        /\ Contract(att', stack', crashed', misused')
        /\ ~Ending(att, stack') /\ Levels(stack') = {1} /\ stack'[1] = f
    <3>1. <<>> \in Alls /\ <<>> \notin Unrefs
      BY TodoIs DEF Alls, Todos
    <3> QED
      BY <3>1, <1>1, <1>2, <1>5, <2>1, <2>3, <2>4, <2>5, <2>7, LoneKeeps
  <2>10. \A id \in Ids : told'[id] <= 1
    <3>1. \A id \in Ids : told[id] <= 1
      BY <1>4 DEF Telling
    <3> QED
      BY <3>1, <2>7
  <2>11. \A id \in ToSet(att.disconn) :
             IF id \in Behind(att.disconn, next) THEN told'[id] = 0
             ELSE told'[id] = 1 \/ id \in given
    BY <1>3, <2>1, <2>6, <2>7, <2>8
  <2>12. \A id \in Ids : told[id] = 1 => told'[id] = 1
    BY <2>6, <2>7
  <2>13. \A id \in 1 .. att.next_reg_id - 1 :
          att.for[id] = Disconn => id \in ToSet(att.disconn) \/ id \in given \/ told'[id] = 1
    <3>1. \A id \in 1 .. att.next_reg_id - 1 : id \in Ids
      BY InvFields, Numbers
    <3> QED
      BY <3>1, <1>2, <1>4, <2>12 DEF Telling
  <2>14. Telling(att, stack', told', given)
    BY <1>5, <2>4, <2>9, <2>10, <2>11, <2>13 DEF Telling
  <2>15. Offering(att, stack', given)
    BY <2>4, <2>9 DEF Offering
  <2> QED
    BY <1>1, <2>9, <2>14, <2>15 DEF HandlersInv
<1> QED
  BY <1>6, <1>7 DEF DisconnTurn

\* The next hook of a list that is being emptied.
LEMMA HookKeeps ==
    ASSUME HandlersInv, Going("series"), Top.rest # <<>>,
           stack' = WithTop([Top EXCEPT !.at = Head(Top.rest), !.rest = Tail(@)]),
           hooks' = [hooks EXCEPT ![Head(Top.rest)] = @ + 1],
           att' = att, given' = given, crashed' = crashed, told' = told, misused' = misused
    PROVE  HandlersInv'
<1> DEFINE n == Len(stack)
           rest == stack[n].rest
           id == Head(rest)
           f == [stack[n] EXCEPT !.at = id, !.rest = Tail(rest)]
<1>1. /\ stack # <<>> /\ stack[n].kind = "series" /\ rest # <<>>
      /\ stack' = [stack EXCEPT ![n] = f] /\ hooks' = [hooks EXCEPT ![id] = @ + 1]
  BY DEF Going, Top, WithTop
<1>2. Stacked(stack) /\ stack \in Seq(FrameType) /\ n \in Levels(stack)
  BY <1>1, InvFields DEF Stacked
<1>3. stack[n] \in FrameType /\ rest \in Seq(Ids)
  BY <1>2 DEF Stacked
<1>4. /\ Shape(att, stack) /\ Placed(att, stack) /\ Hooked(att, stack, hooks)
      /\ Known(att, stack, given) /\ Contract(att, stack, crashed, misused)
      /\ Telling(att, stack, told, given) /\ Offering(att, stack, given)
  BY DEF HandlersInv
<1>5. Distinct(rest)
  BY <1>2, <1>4 DEF Placed
<1>6. /\ id \in Ids /\ id \in ToSet(rest) /\ Tail(rest) \in Seq(Ids) /\ Distinct(Tail(rest))
      /\ ToSet(Tail(rest)) = ToSet(rest) \ {id}
  BY <1>1, <1>3, <1>5, HeadTailIs
<1> HIDE DEF id
<1>7. /\ f \in FrameType /\ f.kind = "series" /\ f.todo = stack[n].todo
      /\ f.rest = Tail(rest) /\ f.entry = stack[n].entry
  BY <1>1, <1>3, <1>6 DEF FrameType
<1> HIDE DEF f, n
<1>8. Changed(stack, stack', f)
  BY <1>1, <1>2, <1>7, TopSetIs DEF n
<1>9. Shape(att, stack') /\ (Ending(att, stack') <=> Ending(att, stack))
  BY <1>1, <1>4, <1>7, <1>8, ShapeChanged DEF n
<1>10. SameWalks(stack, stack')
  BY <1>1, <1>7, <1>8 DEF SameWalks, Changed, n
<1>11. Types'
  <2>1. hooks[id] + 1 \in Nat /\ hooks \in [Ids -> Nat]
    BY <1>6 DEF HandlersInv, Types
  <2>2. hooks' \in [Ids -> Nat]
    BY <2>1, <1>1
  <2> QED
    BY <2>2, <1>8 DEF HandlersInv, Types, Changed, Stacked
<1>12. \A i \in Levels(stack) : ToSet(stack'[i].rest) = ToSet(stack[i].rest) \ {id}
  <2>1. ASSUME NEW i \in Levels(stack), i # n
        PROVE  ToSet(stack'[i].rest) = ToSet(stack[i].rest) \ {id}
    <3>1. id \notin ToSet(stack[i].rest)
      BY <2>1, <1>2, <1>4, <1>6 DEF Placed
    <3>2. stack'[i] = stack[i]
      BY <2>1, <1>8 DEF Changed, n
    <3> QED
      BY <3>1, <3>2
  <2>2. ToSet(stack'[n].rest) = ToSet(stack[n].rest) \ {id}
    BY <1>6, <1>7, <1>8 DEF Changed, n
  <2> QED
    BY <2>1, <2>2
<1>13. Placed(att, stack')
  <2>1. \A i \in Levels(stack) : Distinct(stack'[i].rest)
    BY <1>4, <1>6, <1>7, <1>8 DEF Placed, Changed
  <2>2. Levels(stack') = Levels(stack)
    BY <1>8 DEF Changed
  <2>3. \A i \in Levels(stack) : ToSet(stack'[i].rest) \subseteq ToSet(stack[i].rest)
    BY <1>12
  <2> QED
    BY <2>1, <2>2, <2>3, <1>4 DEF Placed
<1>14. Hooked(att, stack', hooks')
  <2>1. id \notin ToSet(att.notify) /\ id \notin ToSet(att.disconn)
    BY <1>2, <1>4, <1>6 DEF Placed
  <2>2. ~(id >= att.next_reg_id)
    <3>1. id < att.next_reg_id
      BY <1>2, <1>4, <1>6 DEF Known
    <3> QED
      BY <3>1, <1>6, InvFields, Numbers
  <2>3. hooks[id] = 0
    BY <1>2, <1>4, <1>6 DEF Hooked
  <2>4. hooks'[id] = 1 /\ \A x \in Ids : x # id => hooks'[x] = hooks[x]
    BY <2>3, <1>1, <1>6 DEF HandlersInv, Types
  <2>5. Levels(stack') = Levels(stack)
    BY <1>8 DEF Changed
  <2>6. \A x : (\E i \in Levels(stack') : x \in ToSet(stack'[i].rest))
                <=> (\E i \in Levels(stack) : x \in ToSet(stack[i].rest)) /\ x # id
    BY <2>5, <1>12
  <2> QED
    BY <2>1, <2>2, <2>4, <2>6, <1>4 DEF Hooked
<1>15. Known(att, stack', given)
  <2>1. Levels(stack') = Levels(stack)
        /\ \A i \in Levels(stack) : stack'[i].entry = stack[i].entry
    BY <1>7, <1>8 DEF Changed, n
  <2> QED
    BY <2>1, <1>4, <1>12 DEF Known
<1>16. Contract(att, stack', crashed, misused)
  BY <1>1, <1>4, <1>7, <1>8, <1>9, ContractChanged DEF n
<1>17. Telling(att, stack', told, given)
  BY <1>4, <1>9, <1>10, TellingStays
<1>18. Offering(att, stack', given)
  BY <1>4, <1>10, OfferingStays
<1> QED
  BY <1>9, <1>11, <1>13, <1>14, <1>15, <1>16, <1>17, <1>18 DEF HandlersInv

\* The next list of a series is taken over to be emptied.
LEMMA ListKeeps ==
    ASSUME HandlersInv, Going("series"), Top.rest = <<>>, Top.todo # <<>>, ~att.freed,
           Head(Top.todo) \in Lists,
           NEW f \in FrameType, f.kind = "series", f.todo = Tail(Top.todo),
           f.rest = att[Head(Top.todo)], f.entry = Top.entry, stack' = WithTop(f),
           att' = [att EXCEPT ![Head(Top.todo)] = <<>>],
           given' = IF ToSet(Tail(Top.todo)) \subseteq Lists
                    THEN given \cup ToSet(att[Head(Top.todo)]) ELSE given,
           hooks' = hooks, crashed' = crashed, told' = told, misused' = misused
    PROVE  HandlersInv'
<1> DEFINE n == Len(stack)
           todo == stack[n].todo
           task == Head(todo)
           left == Tail(todo)
           list == att[task]
<1>1. /\ stack # <<>> /\ stack[n].kind = "series" /\ stack[n].rest = <<>> /\ todo # <<>>
      /\ task \in Lists /\ att' = [att EXCEPT ![task] = <<>>]
      /\ given' = IF ToSet(left) \subseteq Lists THEN given \cup ToSet(list) ELSE given
  BY DEF Going, Top
<1>2. Stacked(stack) /\ stack \in Seq(FrameType) /\ n \in Levels(stack)
      /\ att \in AttType /\ att.notify \in Seq(Ids) /\ att.disconn \in Seq(Ids)
      /\ Distinct(att.notify) /\ Distinct(att.disconn) /\ given \subseteq Ids
  BY <1>1, InvFields DEF Stacked, HandlersInv, Types
<1>3. stack[n] \in FrameType /\ todo \in Todos
  BY <1>2 DEF Stacked
<1>4. /\ Shape(att, stack) /\ Placed(att, stack) /\ Hooked(att, stack, hooks)
      /\ Known(att, stack, given) /\ Contract(att, stack, crashed, misused)
      /\ Telling(att, stack, told, given) /\ Offering(att, stack, given)
  BY DEF HandlersInv
<1>5. /\ left \in Todos
      /\ todo \in Alls <=> left \in Alls
      /\ todo \in Unrefs <=> left \in Unrefs
      /\ todo \in Frees <=> left \in Frees
  BY <1>1, <1>3, TodoNext
<1>6. /\ todo \in Frees /\ task = "disconn" => todo = <<"disconn", "free">>
      /\ left = <<"disconn", "free">> => task = "notify"
      /\ left = <<"free">> => todo = <<"disconn", "free">>
      /\ todo # <<"unref">>
  <2>1. task # "unref"
    BY <1>1 DEF Lists
  <2> QED
    BY <2>1, <1>1, <1>3, TodoNext
<1>7. /\ ToSet(left) \subseteq Lists <=> todo \in Alls
      /\ todo \in Alls \/ todo \in Unrefs \/ todo \in Frees
      /\ todo \in Frees => todo \notin Alls /\ todo \notin Unrefs
  BY <1>3, <1>5, TodoIs DEF Todos
<1>8. task = "notify" \/ task = "disconn"
  BY <1>1 DEF Lists
<1>9. list \in Seq(Ids) /\ Distinct(list) /\ ToSet(list) \subseteq Ids
  BY <1>2, <1>8, Elements
<1>10. /\ att' \in AttType
       /\ att'.notify = IF task = "notify" THEN <<>> ELSE att.notify
       /\ att'.disconn = IF task = "disconn" THEN <<>> ELSE att.disconn
       /\ att'.next_reg_id = att.next_reg_id /\ att'.for = att.for
       /\ att'.removed = att.removed /\ att'.io = att.io /\ att'.held = att.held
       /\ att'.freed = att.freed
  <2>1. CASE task = "notify"
    <3>1. att' = [att EXCEPT !.notify = <<>>] /\ <<>> \in Seq(Ids)
      BY <2>1, <1>1, EmptyList
    <3> QED
      BY <3>1, <2>1, <1>2 DEF AttType
  <2>2. CASE task = "disconn"
    <3>1. att' = [att EXCEPT !.disconn = <<>>] /\ <<>> \in Seq(Ids)
      BY <2>2, <1>1, EmptyList
    <3> QED
      BY <3>1, <2>2, <1>2 DEF AttType
  <2> QED
    BY <2>1, <2>2, <1>8
<1> HIDE DEF task, left
<1>11. /\ f \in FrameType /\ f.kind = "series" /\ f.todo = left
       /\ f.rest = list /\ f.entry = stack[n].entry
  BY DEF Top, left, task
<1>12. stack' = [stack EXCEPT ![n] = f]
  BY DEF WithTop, Top, task
<1> HIDE DEF n, todo, list
<1>13. Changed(stack, stack', f)
  BY <1>1, <1>2, <1>11, <1>12, TopSetIs, ZenonT(30) DEF n
<1>14. Levels(stack') = Levels(stack) /\ stack'[n] = f
       /\ \A i \in Levels(stack) : i # n => stack'[i] = stack[i]
  BY <1>13 DEF Changed, n
<1>15. \A i \in Levels(stack) : stack'[i].kind = stack[i].kind /\ stack'[i].entry = stack[i].entry
  BY <1>1, <1>11, <1>14
<1>16. \A i \in Levels(stack) : (stack'[i].todo \in Frees <=> stack[i].todo \in Frees)
                                /\ (stack'[i].todo \in Unrefs <=> stack[i].todo \in Unrefs)
  BY <1>5, <1>11, <1>14 DEF todo
<1>17. Ending(att', stack') <=> Ending(att, stack)
  BY <1>10, <1>14, <1>16 DEF Ending
<1>18. SameWalks(stack, stack')
  BY <1>1, <1>11, <1>14 DEF SameWalks
<1>19. \A i \in Levels(stack) : FrameFits(att, stack, i)
  BY <1>4 DEF Shape
<1>20. n = Len(stack')
  BY <1>13 DEF Changed, n
<1>21. /\ todo \in Unrefs => n = 1 /\ ~att.io
       /\ todo \in Frees => Ending(att, stack)
       /\ \A i \in Levels(stack) : i # n => stack[i].todo \notin Frees
  <2>1. todo \in Unrefs => n = 1 /\ ~att.io
    BY <1>2, <1>6, <1>19 DEF FrameFits, todo
  <2>2. todo \in Frees => Ending(att, stack)
    BY <1>2 DEF Ending, todo
  <2>3. \A i \in Levels(stack) : i # n => stack[i].todo \notin Frees
    BY <1>19 DEF FrameFits, n
  <2> QED
    BY <2>1, <2>2, <2>3
<1>22. Shape(att', stack')
  <2>1. ASSUME NEW i \in Levels(stack), i # n PROVE FrameFits(att', stack', i)
    <3>1. stack'[i] = stack[i] /\ stack[i].todo \notin Frees /\ FrameFits(att, stack, i)
      BY <2>1, <1>14, <1>19, <1>21
    <3> QED
      BY <3>1, <1>10, <1>17 DEF FrameFits, Frees
  <2>2. FrameFits(att', stack', n)
    <3>1. left \in Unrefs => n = 1 /\ ~att.io
      BY <1>5, <1>21
    <3>2. Ending(att, stack) => left \notin Unrefs
      BY <1>2, <1>5, <1>19 DEF FrameFits, todo
    <3>3. left = <<"disconn", "free">> => att'.notify = <<>>
      BY <1>6, <1>10
    <3>4. left = <<"free">> => att'.notify = <<>> /\ att'.disconn = <<>>
      <4>1. ASSUME left = <<"free">> PROVE task = "disconn" /\ att.notify = <<>>
        <5>1. stack[n].todo = <<"disconn", "free">>
          BY <4>1, <1>6 DEF todo
        <5>2. Head(<<"disconn", "free">>) = "disconn"
          BY Tuples
        <5> QED
          BY <5>1, <5>2, <1>2, <1>19 DEF FrameFits, task, todo
      <4> QED
        BY <4>1, <1>10
    <3> QED
      BY <3>1, <3>2, <3>3, <3>4, <1>10, <1>11, <1>14, <1>17, <1>20 DEF FrameFits
  <2> QED
    BY <2>1, <2>2, <1>4, <1>10, <1>14, <1>17 DEF Shape
<1>23. Types'
  <2>1. given' \subseteq Ids
    BY <1>1, <1>2, <1>9
  <2>2. stack' \in Seq(FrameType)
    BY <1>13 DEF Changed, Stacked
  <2> QED
    BY <2>1, <2>2, <1>10 DEF HandlersInv, Types
<1>24. ToSet(list) = IF task = "notify" THEN ToSet(att.notify) ELSE ToSet(att.disconn)
  BY <1>8 DEF list
<1>25. /\ ToSet(att'.notify) = IF task = "notify" THEN {} ELSE ToSet(att.notify)
       /\ ToSet(att'.disconn) = IF task = "disconn" THEN {} ELSE ToSet(att.disconn)
  <2>1. ToSet(<<>>) = {}
    BY EmptyList
  <2>2. CASE task = "notify"
    BY <2>1, <2>2, <1>10
  <2>3. CASE task = "disconn"
    BY <2>1, <2>3, <1>10
  <2> QED
    BY <2>2, <2>3, <1>8
<1>26. ToSet(att.notify) \cap ToSet(att.disconn) = {}
  BY <1>4 DEF Placed
<1>27. \A i \in Levels(stack) : /\ ToSet(stack[i].rest) \cap ToSet(list) = {}
                                /\ i # n => stack'[i].rest = stack[i].rest
                                /\ ToSet(stack[n].rest) = {} /\ stack'[n].rest = list
  BY <1>1, <1>4, <1>11, <1>14, <1>24, EmptyList DEF Placed
<1>28. Placed(att', stack')
  <2>1. Distinct(att'.notify) /\ Distinct(att'.disconn)
    BY <1>2, <1>10, EmptyList
  <2>2. ToSet(att'.notify) \cap ToSet(list) = {} /\ ToSet(att'.disconn) \cap ToSet(list) = {}
        /\ ToSet(att'.notify) \cap ToSet(att'.disconn) = {}
    BY <1>8, <1>24, <1>25, <1>26
  <2>3. ASSUME NEW i \in Levels(stack)
        PROVE  /\ Distinct(stack'[i].rest)
               /\ ToSet(stack'[i].rest) \cap ToSet(att'.notify) = {}
               /\ ToSet(stack'[i].rest) \cap ToSet(att'.disconn) = {}
    <3>1. CASE i = n
      BY <3>1, <2>2, <1>2, <1>9, <1>27
    <3>2. CASE i # n
      BY <3>2, <1>4, <1>25, <1>27 DEF Placed
    <3> QED
      BY <3>1, <3>2
  <2>4. ASSUME NEW i \in Levels(stack), NEW j \in Levels(stack), i # j
        PROVE  ToSet(stack'[i].rest) \cap ToSet(stack'[j].rest) = {}
    <3>1. CASE i = n
      BY <2>4, <3>1, <1>27
    <3>2. CASE j = n
      BY <2>4, <3>2, <1>27
    <3>3. CASE i # n /\ j # n
      BY <2>4, <3>3, <1>4, <1>27 DEF Placed
    <3> QED
      BY <3>1, <3>2, <3>3
  <2> QED
    BY <2>1, <2>2, <2>3, <2>4, <1>14 DEF Placed
<1>29. Hooked(att', stack', hooks)
  <2>1. ASSUME NEW x
        PROVE  (\/ x \in ToSet(att'.notify) \/ x \in ToSet(att'.disconn)
                \/ \E i \in Levels(stack') : x \in ToSet(stack'[i].rest))
               <=> (\/ x \in ToSet(att.notify) \/ x \in ToSet(att.disconn)
                    \/ \E i \in Levels(stack) : x \in ToSet(stack[i].rest))
    <3>1. (\E i \in Levels(stack') : x \in ToSet(stack'[i].rest))
            <=> x \in ToSet(list) \/ \E i \in Levels(stack) : x \in ToSet(stack[i].rest)
      BY <1>2, <1>14, <1>27
    <3> QED
      BY <3>1, <1>8, <1>24, <1>25
  <2> QED
    BY <2>1, <1>4, <1>10 DEF Hooked
<1>30. Known(att', stack', given')
  <2>1. \A id \in ToSet(list) : id < att.next_reg_id
    BY <1>4, <1>8, <1>24 DEF Known
  <2>2. \A i \in Levels(stack') : /\ \A id \in ToSet(stack'[i].rest) : id < att.next_reg_id
                                  /\ stack'[i].entry < att.next_reg_id
    BY <2>1, <1>4, <1>14, <1>15, <1>27 DEF Known
  <2>3. \A id \in ToSet(att'.notify) \cup ToSet(att'.disconn) \cup given' : id < att.next_reg_id
    BY <2>1, <1>1, <1>4, <1>25 DEF Known
  <2>4. ToSet(att'.notify) \cap given' = {}
    BY <1>1, <1>4, <1>8, <1>24, <1>25, <1>26 DEF Known
  <2>5. ToSet(att'.disconn) \cap given' \subseteq att.removed
    BY <1>1, <1>4, <1>8, <1>24, <1>25, <1>26 DEF Known
  <2>6. att.removed \subseteq given'
    BY <1>1, <1>4 DEF Known
  <2> QED
    BY <2>2, <2>3, <2>4, <2>5, <2>6, <1>10 DEF Known
<1>31. Contract(att', stack', crashed, misused)
  <2>1. \A e : /\ Entered(att.notify, e) => Entered(att'.notify, e)
               /\ Entered(att.disconn, e) => Entered(att'.disconn, e)
    BY <1>10 DEF Entered
  <2>2. \A i \in Levels(stack') : stack'[i].kind = "disconn" => Entered(att'.disconn, stack'[i].entry)
    BY <2>1, <1>4, <1>14, <1>15 DEF Contract
  <2>3. ~misused => \A i \in Levels(stack') : stack'[i].kind = "notify" =>
                        Entered(att'.notify, stack'[i].entry)
    BY <2>1, <1>4, <1>14, <1>15 DEF Contract
  <2>4. ASSUME ~misused, Ending(att, stack), NEW i \in Levels(stack')
        PROVE  /\ stack'[i].kind \in {"series", "one"}
               /\ stack'[i].todo # <<>> => i = Len(stack') /\ stack'[i].todo \in Frees
    <3>1. /\ stack[i].kind \in {"series", "one"}
          /\ stack[i].todo # <<>> => i = n /\ stack[i].todo \in Frees
      <4>1. ~misused /\ Ending(att, stack) =>
               \A j \in Levels(stack) : /\ stack[j].kind \in {"series", "one"}
                                        /\ stack[j].todo # <<>> => j = Len(stack) /\ stack[j].todo \in Frees
        BY <1>4 DEF Contract
      <4> QED
        BY <4>1, <2>4, <1>14 DEF n
    <3>2. todo \in Frees
      BY <2>4, <1>1, <1>2, <1>4 DEF Contract, n, todo
    <3> QED
      BY <3>1, <3>2, <1>5, <1>11, <1>14, <1>15, <1>20
  <2> QED
    BY <2>2, <2>3, <2>4, <1>4, <1>10, <1>17 DEF Contract
<1>32. Telling(att', stack', told, given')
  <2>1. given \subseteq given'
    BY <1>1
  <2>2. Telling(att, stack', told, given')
    <3>1. Ending(att, stack) => Ending(att, stack')
      BY <1>10, <1>17 DEF Ending
    <3> QED
      BY <2>1, <3>1, <1>4, <1>18, TellingStays
  <2>3. ASSUME NEW i \in Levels(stack'), stack'[i].kind = "disconn", NEW id \in ToSet(att'.disconn)
        PROVE  IF id \in Behind(att'.disconn, stack'[i].entry) THEN told[id] = 0
               ELSE told[id] = 1 \/ id \in given'
    <3>1. att'.disconn = att.disconn
      BY <2>3, <1>10, <1>25
    <3> QED
      BY <3>1, <2>2, <2>3 DEF Telling
  <2>4. ASSUME ~Ending(att', stack'), NEW id \in 1 .. att.next_reg_id - 1, att.for[id] = Disconn
        PROVE  id \in ToSet(att'.disconn) \/ id \in given' \/ told[id] = 1
    <3>1. id \in ToSet(att.disconn) \/ id \in given \/ told[id] = 1
      BY <2>4, <1>4, <1>17 DEF Telling
    <3>2. CASE todo \in Alls
      BY <3>1, <3>2, <1>1, <1>7, <1>8, <1>24, <1>25
    <3>3. CASE todo \in Unrefs
      <4>1. Levels(stack) = {1}
        <5>1. Len(stack) = 1
          BY <3>3, <1>21 DEF n
        <5> QED
          BY <5>1 DEF Levels
      <4>2. ~att.io /\ \A i \in Levels(stack) : stack[i].kind \notin {"ops", "disconn"}
        BY <3>3, <4>1, <1>1, <1>21
      <4>3. id \in given \/ told[id] = 1
        BY <4>2, <2>4, <1>4 DEF Telling
      <4> QED
        BY <4>3, <2>1
    <3>4. CASE todo \in Frees
      BY <3>4, <2>4, <1>17, <1>21
    <3> QED
      BY <3>2, <3>3, <3>4, <1>7
  <2> QED
    BY <2>2, <2>3, <2>4, <1>10 DEF Telling
<1>33. Offering(att', stack', given')
  <2>1. Offering(att, stack', given')
    BY <1>1, <1>4, <1>18, OfferingStays
  <2>2. CASE task = "disconn"
    BY <2>1, <2>2, <1>10 DEF Offering
  <2>3. CASE task = "notify"
    <3>1. CASE todo \in Alls
      <4>1. given' = given \cup ToSet(att.notify)
        BY <2>3, <3>1, <1>1, <1>7, <1>24
      <4>2. ASSUME NEW i \in Levels(stack'), stack'[i].kind = "notify"
            PROVE  stack'[i].due \subseteq given'
        BY <2>1, <4>1, <4>2 DEF Offering
      <4> QED
        BY <4>2 DEF Offering
    <3>2. CASE todo \in Unrefs \/ todo \in Frees
      <4>1. \A i \in Levels(stack) : stack[i].kind # "notify"
        <5>1. CASE todo \in Unrefs
          <6>1. Levels(stack) = {1} /\ n = 1
            <7>1. Len(stack) = 1
              BY <5>1, <1>21 DEF n
            <7> QED
              BY <7>1 DEF n, Levels
          <6> QED
            BY <6>1, <1>1 DEF n
        <5>2. CASE todo \in Frees
          BY <5>2, <1>19, <1>21 DEF FrameFits
        <5> QED
          BY <3>2, <5>1, <5>2
      <4> QED
        BY <4>1, <1>14, <1>15 DEF Offering
    <3> QED
      BY <3>1, <3>2, <1>7
  <2> QED
    BY <2>2, <2>3, <1>8
<1> QED
  BY <1>22, <1>23, <1>28, <1>29, <1>30, <1>31, <1>32, <1>33 DEF HandlersInv

\* bt_att_unref at the end of handle_notify or of disconnect_cb.
LEMMA LastUnrefKeeps ==
    ASSUME HandlersInv, Going("series"), Top.rest = <<>>, Top.todo # <<>>, ~att.freed,
           Head(Top.todo) = "unref", NEW f \in FrameType, f.kind = "series",
           f.todo = Tail(Top.todo), f.rest = <<>>, f.entry = Top.entry,
           stack' = WithTop(IF att.held \/ Referenced(WithTop(f)) THEN f ELSE Series(Release)),
           att' = att, given' = given, hooks' = hooks, crashed' = crashed,
           told' = told, misused' = misused
    PROVE  HandlersInv'
<1>1. stack # <<>> /\ Top.kind = "series"
  BY DEF Going
<1>2. Stacked(stack) /\ stack \in Seq(FrameType) /\ Len(stack) \in Levels(stack)
  BY <1>1, InvFields DEF Stacked
<1>3. Top.todo \in Todos /\ Top = stack[Len(stack)]
  BY <1>2 DEF Stacked, Top
<1>4. Top.todo = <<"unref">> /\ f.todo = <<>>
  BY <1>3, TodoNext
<1>5. <<"unref">> \in Unrefs
  BY DEF Unrefs
<1>6. /\ Shape(att, stack) /\ Placed(att, stack) /\ Hooked(att, stack, hooks)
      /\ Known(att, stack, given) /\ Contract(att, stack, crashed, misused)
      /\ Telling(att, stack, told, given) /\ Offering(att, stack, given)
  BY DEF HandlersInv
<1>7. FrameFits(att, stack, Len(stack))
  BY <1>2, <1>6 DEF Shape
<1>8. Len(stack) = 1 /\ ~Ending(att, stack)
  BY <1>3, <1>4, <1>5, <1>7 DEF FrameFits
<1>9. Levels(stack) = {1} /\ stack[1] = Top
  BY <1>3, <1>8 DEF Levels
<1>10. <<>> \in Alls /\ <<>> \in Todos /\ <<>> \notin Unrefs /\ <<>> \notin Frees
  BY TodoIs DEF Alls, Todos
<1>11. f.entry < att.next_reg_id
  BY <1>6, <1>9 DEF Known
<1>12. CASE att.held \/ Referenced(WithTop(f))
  <2>1. stack' = WithTop(f) /\ told' \in [Ids -> Nat]
    BY <1>12 DEF HandlersInv, Types
  <2>2. /\ Types' /\ Shape(att', stack') /\ Placed(att', stack')
        /\ Hooked(att', stack', hooks') /\ Known(att', stack', given')
        /\ Contract(att', stack', crashed', misused')
        /\ ~Ending(att, stack') /\ Levels(stack') = {1} /\ stack'[1] = f
    BY <1>1, <1>4, <1>8, <1>9, <1>10, <1>11, <2>1, LoneKeeps
  <2>3. SameReport(stack, stack')
    BY <1>1, <1>9, <2>2 DEF SameReport
  <2>4. Telling(att, stack', told, given)
    BY <1>6, <1>8, <2>3, ReportStays
  <2>5. Offering(att, stack', given)
    BY <2>2 DEF Offering
  <2> QED
    BY <2>2, <2>4, <2>5 DEF HandlersInv
<1>13. CASE ~(att.held \/ Referenced(WithTop(f)))
  <2> DEFINE r == Series(Release)
  <2>1. Release \in Frees /\ Release \in Todos
    BY DEF Release, Frees, Todos
  <2>2. Release # <<"free">> /\ Release # <<"disconn", "free">> /\ Release \notin Unrefs
        /\ Release # <<>>
    <3>1. Release # <<"free">> /\ Release # <<"disconn", "free">>
      BY Tuples DEF Release
    <3> QED
      BY <2>1, <3>1, TodoIs
  <2>3. /\ r \in FrameType /\ r.kind = "series" /\ r.entry = None /\ r.rest = <<>>
        /\ r.todo = Release
    BY <2>1, SeriesIs
  <2>4. stack' = [stack EXCEPT ![Len(stack)] = r]
    BY <1>13 DEF WithTop
  <2> HIDE DEF r
  <2>5. Changed(stack, stack', r)
    BY <1>1, <1>2, <2>3, <2>4, TopSetIs
  <2>6. Levels(stack') = {1} /\ stack'[1] = r /\ Len(stack') = 1 /\ Stacked(stack')
    BY <1>8, <1>9, <2>5 DEF Changed
  <2>7. Ending(att, stack')
    BY <2>1, <2>3, <2>6 DEF Ending
  <2>8. Types'
    BY <2>6 DEF HandlersInv, Types, Stacked
  <2>9. FrameFits(att, stack', 1)
    BY <2>1, <2>2, <2>3, <2>6 DEF FrameFits
  <2>10. Shape(att, stack')
    BY <1>13, <2>6, <2>9 DEF Shape
  <2>11. Quiet(stack, stack') /\ SameWalks(stack, stack')
    BY <1>1, <1>2, <1>9, <2>3, <2>6 DEF Quiet, SameWalks
  <2>12. Placed(att, stack') /\ Hooked(att, stack', hooks)
    BY <1>6, <2>11, PlacedStays
  <2>13. Known(att, stack', given)
    <3>1. None < att.next_reg_id
      BY InvFields, Numbers
    <3>2. \A i \in Levels(stack') : stack'[i].entry < att.next_reg_id
      BY <3>1, <2>3, <2>6
    <3> QED
      BY <3>2, <1>6, <2>11, KnownStays
  <2>14. Contract(att, stack', crashed, misused)
    <3>1. \A i \in Levels(stack') : /\ stack'[i].kind = "series" /\ i = Len(stack')
                                    /\ stack'[i].todo \in Frees
      BY <2>1, <2>3, <2>6
    <3>2. ~misused => ~crashed
      BY <1>6 DEF Contract
    <3> QED
      BY <3>1, <3>2 DEF Contract
  <2>15. Telling(att, stack', told, given)
    BY <1>6, <2>7, <2>11, TellingStays
  <2>16. Offering(att, stack', given)
    BY <1>6, <2>11, OfferingStays
  <2> QED
    BY <2>8, <2>10, <2>12, <2>13, <2>14, <2>15, <2>16 DEF HandlersInv
<1> QED
  BY <1>12, <1>13

\* bt_att_free.
LEMMA FreeKeeps ==
    ASSUME HandlersInv, Going("series"), Top.rest = <<>>, Top.todo # <<>>, ~att.freed,
           Head(Top.todo) = "free", NEW f \in FrameType, f.kind = "series",
           f.todo = Tail(Top.todo), f.rest = <<>>, f.entry = Top.entry, stack' = WithTop(f),
           att' = [att EXCEPT !.freed = TRUE], given' = given, hooks' = hooks,
           crashed' = crashed, told' = told, misused' = misused
    PROVE  HandlersInv'
<1> DEFINE n == Len(stack)
<1>1. stack # <<>> /\ stack[n].kind = "series" /\ stack[n].rest = <<>> /\ f.entry = stack[n].entry
      /\ stack' = [stack EXCEPT ![n] = f]
  BY DEF Going, Top, WithTop
<1>2. Stacked(stack) /\ stack \in Seq(FrameType) /\ n \in Levels(stack) /\ att \in AttType
  BY <1>1, InvFields DEF Stacked
<1>3. stack[n].todo = <<"free">> /\ f.todo = <<>>
  <2>1. stack[n].todo \in Todos
    BY <1>2 DEF Stacked
  <2> QED
    BY <2>1, TodoNext DEF Top
<1>4. <<"free">> \in Frees
  BY DEF Frees
<1>5. /\ Shape(att, stack) /\ Placed(att, stack) /\ Hooked(att, stack, hooks)
      /\ Known(att, stack, given) /\ Contract(att, stack, crashed, misused)
      /\ Telling(att, stack, told, given) /\ Offering(att, stack, given)
  BY DEF HandlersInv
<1>6. /\ att' \in AttType /\ att'.notify = att.notify /\ att'.disconn = att.disconn
      /\ att'.removed = att.removed /\ att'.for = att.for
      /\ att'.next_reg_id = att.next_reg_id /\ att'.io = att.io /\ att'.held = att.held
      /\ att'.freed
  BY <1>2 DEF AttType
<1> HIDE DEF n
<1>7. Ending(att, stack)
  BY <1>2, <1>3, <1>4 DEF Ending
<1>8. ~att.held /\ att.notify = <<>> /\ att.disconn = <<>>
  BY <1>2, <1>3, <1>5, <1>7 DEF Shape, FrameFits
<1>9. Changed(stack, stack', f)
  BY <1>1, <1>2, TopSetIs DEF n
<1>10. Levels(stack') = Levels(stack) /\ stack'[n] = f /\ Len(stack') = n
       /\ \A i \in Levels(stack) : i # n => stack'[i] = stack[i]
  BY <1>9 DEF Changed, n
<1>11. Ending(att', stack')
  BY <1>6 DEF Ending
<1>12. Types'
  BY <1>6, <1>9 DEF HandlersInv, Types, Changed, Stacked
<1>13. <<>> \notin Unrefs /\ <<>> \notin Frees
  BY TodoIs DEF Alls, Todos
<1>14. Shape(att', stack')
  <2>1. ASSUME NEW i \in Levels(stack), i # n PROVE FrameFits(att', stack', i)
    <3>1. stack'[i] = stack[i] /\ FrameFits(att, stack, i) /\ stack[i].todo \notin Frees
      BY <2>1, <1>5, <1>10 DEF Shape, FrameFits, n
    <3> QED
      BY <3>1, <1>6, <1>7, <1>11 DEF FrameFits, Frees
  <2>2. FrameFits(att', stack', n)
    <3>1. <<>> # <<"free">> /\ <<>> # <<"disconn", "free">>
      BY <1>13 DEF Frees
    <3> QED
      BY <3>1, <1>3, <1>6, <1>10, <1>13 DEF FrameFits
  <2> QED
    BY <2>1, <2>2, <1>6, <1>8, <1>10 DEF Shape
<1>15. Quiet(stack, stack') /\ SameWalks(stack, stack')
  BY <1>1, <1>2, <1>9, <1>10 DEF Quiet, SameWalks, Changed
<1>16. Placed(att', stack') /\ Hooked(att', stack', hooks)
  BY <1>5, <1>6, <1>15, PlacedStays
<1>17. Known(att', stack', given)
  <2>1. \A i \in Levels(stack') : stack'[i].entry < att.next_reg_id
    BY <1>1, <1>2, <1>5, <1>10 DEF Known
  <2> QED
    BY <2>1, <1>5, <1>6, <1>15, KnownStays
<1>18. Contract(att', stack', crashed, misused)
  <2>1. ~misused => ~crashed /\ \A i \in Levels(stack) :
            /\ stack[i].kind \in {"series", "one"}
            /\ stack[i].todo # <<>> => i = n
    BY <1>5, <1>7 DEF Contract, n
  <2>2. ~misused => \A i \in Levels(stack') :
            stack'[i].kind \in {"series", "one"} /\ stack'[i].todo = <<>>
    BY <2>1, <1>3, <1>10
  <2>3. \A i \in Levels(stack') : stack'[i].kind # "disconn"
    BY <1>5, <1>7, <1>10 DEF Shape, FrameFits
  <2> QED
    BY <2>1, <2>2, <2>3 DEF Contract
<1>19. Telling(att', stack', told, given)
  BY <1>5, <1>6, <1>11, <1>15, TellingStays
<1>20. Offering(att', stack', given)
  BY <1>5, <1>6, <1>15, OfferingStays
<1> QED
  BY <1>12, <1>14, <1>16, <1>17, <1>18, <1>19, <1>20 DEF HandlersInv

\* A series goes on.
LEMMA SeriesTurnKeeps ==
    ASSUME HandlersInv, SeriesTurn
    PROVE  HandlersInv'
<1> DEFINE f == [Top EXCEPT !.todo = Tail(@)]
           task == Head(Top.todo)
<1>1. /\ Going("series") /\ stack # <<>> /\ Top.kind = "series"
      /\ crashed' = crashed /\ told' = told /\ misused' = misused
  BY DEF SeriesTurn, Going
<1>2. Stacked(stack) /\ Len(stack) \in Levels(stack)
  BY <1>1, InvFields DEF Stacked
<1>3. Top \in FrameType /\ Top.todo \in Todos
  BY <1>2 DEF Stacked, Top
<1>4. CASE /\ Top.rest # <<>>
           /\ stack' = WithTop([Top EXCEPT !.at = Head(Top.rest), !.rest = Tail(@)])
           /\ hooks' = [hooks EXCEPT ![Head(Top.rest)] = @ + 1]
           /\ UNCHANGED <<att, given>>
  BY <1>1, <1>4, HookKeeps
<1>5. CASE /\ Top.rest = <<>> /\ Top.todo = <<>>
           /\ stack' = Front(stack) /\ UNCHANGED <<att, hooks, given>>
  BY <1>1, <1>5, OverKeeps
<1>6. CASE /\ Top.rest = <<>> /\ Top.todo # <<>> /\ ~att.freed /\ UNCHANGED hooks
           /\ \/ /\ task \in Lists
                 /\ stack' = WithTop([f EXCEPT !.rest = att[task]])
                 /\ att' = [att EXCEPT ![task] = <<>>]
                 /\ given' = IF ToSet(f.todo) \subseteq Lists
                             THEN given \cup ToSet(att[task]) ELSE given
              \/ /\ task = "unref"
                 /\ stack' = WithTop(IF att.held \/ Referenced(WithTop(f)) THEN f
                                     ELSE Series(Release))
                 /\ UNCHANGED <<att, given>>
              \/ /\ task = "free"
                 /\ att' = [att EXCEPT !.freed = TRUE]
                 /\ stack' = WithTop(f)
                 /\ UNCHANGED given
  <2>1. Tail(Top.todo) \in Todos
    BY <1>3, <1>6, TodoNext
  <2>2. /\ f \in FrameType /\ f.kind = "series" /\ f.todo = Tail(Top.todo)
        /\ f.rest = <<>> /\ f.entry = Top.entry
    BY <1>1, <1>3, <1>6, <2>1 DEF FrameType, Todos
  <2> HIDE DEF f, task
  <2>3. CASE /\ task \in Lists
             /\ stack' = WithTop([f EXCEPT !.rest = att[task]])
             /\ att' = [att EXCEPT ![task] = <<>>]
             /\ given' = IF ToSet(f.todo) \subseteq Lists
                         THEN given \cup ToSet(att[task]) ELSE given
    <3> DEFINE g == [f EXCEPT !.rest = att[task]]
    <3>1. att[task] \in Seq(Ids)
      BY <2>3, InvFields DEF Lists
    <3>2. /\ g \in FrameType /\ g.kind = "series" /\ g.todo = Tail(Top.todo)
          /\ g.rest = att[task] /\ g.entry = Top.entry
      BY <2>2, <3>1 DEF FrameType
    <3>3. stack' = WithTop(g)
      BY <2>3
    <3> HIDE DEF g
    <3> QED
      BY <3>2, <3>3, <1>1, <1>6, <2>2, <2>3, ListKeeps DEF task
  <2>4. CASE /\ task = "unref"
             /\ stack' = WithTop(IF att.held \/ Referenced(WithTop(f)) THEN f
                                 ELSE Series(Release))
             /\ UNCHANGED <<att, given>>
    BY <1>1, <1>6, <2>2, <2>4, LastUnrefKeeps DEF task
  <2>5. CASE /\ task = "free"
             /\ att' = [att EXCEPT !.freed = TRUE]
             /\ stack' = WithTop(f)
             /\ UNCHANGED given
    BY <1>1, <1>6, <2>2, <2>5, FreeKeeps DEF task
  <2> QED
    BY <1>6, <2>3, <2>4, <2>5
<1> QED
  BY <1>4, <1>5, <1>6 DEF SeriesTurn

\* Freed memory is used only where a callback did what it must not.
LEMMA WildKeeps ==
    ASSUME HandlersInv, Wild
    PROVE  HandlersInv'
<1>1. /\ stack # <<>> /\ UsesFreed /\ crashed' = TRUE /\ att' = att /\ stack' = stack
      /\ hooks' = hooks /\ told' = told /\ given' = given /\ misused' = misused
  BY DEF Wild, history
<1>2. Stacked(stack) /\ Len(stack) \in Levels(stack)
  BY <1>1, InvFields DEF Stacked
<1>3. Contract(att, stack, crashed, misused)
  BY DEF HandlersInv
<1>4. misused
  <2> SUFFICES ASSUME ~misused PROVE FALSE
    OBVIOUS
  <2>1. CASE att.freed
    <3>1. Ending(att, stack)
      BY <2>1 DEF Ending
    <3>2. Top.kind \in {"series", "one"} /\ Top.todo = <<>>
      BY <1>2, <1>3, <2>1, <3>1 DEF Contract, Top
    <3> QED
      BY <1>1, <2>1, <3>2 DEF UsesFreed
  <2>2. CASE ~att.freed
    <3>1. /\ Top.kind \in Lists /\ Top.entry \notin ToSet(att[Top.kind])
          /\ IF Top.kind = "notify" THEN ~NotifyOver
             ELSE att.disconn # <<>> /\ Top.entry # None
      BY <1>1, <2>2 DEF UsesFreed
    <3>2. CASE Top.kind = "notify"
      <4>1. Entered(att.notify, Top.entry)
        BY <1>2, <1>3, <3>2 DEF Contract, Top
      <4> QED
        BY <4>1, <3>1, <3>2 DEF Entered, NotifyOver
    <3>3. CASE Top.kind = "disconn"
      <4>1. Entered(att.disconn, Top.entry)
        BY <1>2, <1>3, <3>3 DEF Contract, Top
      <4> QED
        BY <4>1, <3>1, <3>3 DEF Entered
    <3> QED
      BY <3>1, <3>2, <3>3 DEF Lists
  <2> QED
    BY <2>1, <2>2
<1>5. Types'
  BY <1>1 DEF HandlersInv, Types
<1>6. Contract(att, stack, crashed', misused)
  BY <1>3, <1>4 DEF Contract
<1> QED
  BY <1>1, <1>5, <1>6 DEF HandlersInv

-----------------------------------------------------------------------------
(* The invariant and what follows from it *)

\* The bearer as it starts.
LEMMA HandlersInit ==
    Init => HandlersInv
<1> SUFFICES ASSUME Init PROVE HandlersInv
  OBVIOUS
<1>1. /\ att = [notify |-> <<>>, disconn |-> <<>>,
                for |-> [i \in Ids |-> "none"], removed |-> {},
                next_reg_id |-> 1, io |-> TRUE, held |-> TRUE, freed |-> FALSE]
      /\ stack = <<>> /\ crashed = FALSE
      /\ hooks = [i \in Ids |-> 0] /\ told = [i \in Ids |-> 0]
      /\ given = {} /\ misused = FALSE
  BY DEF Init
<1>2. 1 \in 1 .. MaxIds + 1 /\ \A id \in Ids : id >= 1
  BY Numbers
<1>3. stack \in Seq(FrameType)
  BY <1>1
<1>4. Levels(stack) = {}
  BY <1>1, <1>3, StackIs DEF Stacked
<1>5. /\ att.notify = <<>> /\ att.disconn = <<>> /\ att.removed = {} /\ att.next_reg_id = 1
      /\ att.io /\ att.held /\ ~att.freed
      /\ ToSet(att.notify) = {} /\ ToSet(att.disconn) = {}
      /\ Distinct(att.notify) /\ Distinct(att.disconn)
  BY <1>1, EmptyList
<1>6. att \in AttType
  BY <1>1, <1>2, EmptyList DEF AttType
<1>7. Types
  BY <1>1, <1>3, <1>6 DEF Types
<1>8. ~Ending(att, stack)
  BY <1>4, <1>5 DEF Ending
<1>9. Shape(att, stack) /\ Placed(att, stack)
  BY <1>4, <1>5, <1>8 DEF Shape, Placed
<1>10. Hooked(att, stack, hooks)
  BY <1>1, <1>2, <1>5 DEF Hooked
<1>11. Known(att, stack, given)
  BY <1>1, <1>4, <1>5 DEF Known
<1>12. Contract(att, stack, crashed, misused)
  BY <1>1, <1>4, <1>5, <1>8 DEF Contract
<1>13. Telling(att, stack, told, given)
  <2>1. \A id \in Ids : told[id] = 0 /\ 0 <= 1
    BY <1>1
  <2>2. \A id \in 1 .. att.next_reg_id - 1 : FALSE
    BY <1>5
  <2> QED
    BY <2>1, <2>2, <1>4, <1>5 DEF Telling
<1>14. Offering(att, stack, given)
  BY <1>4 DEF Offering
<1> QED
  BY <1>7, <1>9, <1>10, <1>11, <1>12, <1>13, <1>14 DEF HandlersInv

\* Every step leaves the invariant.
LEMMA HandlersNext ==
    HandlersInv /\ [Next]_vars => HandlersInv'
<1> SUFFICES ASSUME HandlersInv, [Next]_vars PROVE HandlersInv'
  OBVIOUS
<1>1. ASSUME NEW what \in Handled, Register("notify", what) PROVE HandlersInv'
  <2>1. "notify" \in Lists /\ what \in Handled \cup {Disconn}
    BY DEF Lists
  <2> QED
    BY <1>1, <2>1, RegisterKeeps
<1>2. ASSUME Register("disconn", Disconn) PROVE HandlersInv'
  <2>1. "disconn" \in Lists /\ Disconn \in Handled \cup {Disconn}
    BY DEF Lists
  <2> QED
    BY <1>2, <2>1, RegisterKeeps
<1>3. CASE UNCHANGED vars
  BY <1>3 DEF vars, history, HandlersInv, Types
<1> QED
  BY <1>1, <1>2, <1>3, UnregisterKeeps, UnregisterDisconnectKeeps, UnregisterAllKeeps,
     UnrefKeeps, ReceiveKeeps, DisconnectKeeps, ReturnKeeps, NotifyTurnKeeps, OpsDoneKeeps,
     DisconnTurnKeeps, SeriesTurnKeeps, OneDoneKeeps, WildKeeps DEF Next

\* The invariant holds.
THEOREM HandlersSafe ==
    Spec => []HandlersInv
BY HandlersInit, HandlersNext, PTL DEF Spec

\* att.c:833, att.c:846, att.c:588: unless a callback takes away the handler
\* that comes next, registers after it removed all, or drops the bearer under
\* a function without a reference, nothing that was freed is used.
THEOREM CallbacksAreSafe ==
    Spec => []ContractSuffices
<1>1. HandlersInv => ContractSuffices
  BY DEF HandlersInv, Contract, ContractSuffices
<1> QED
  BY <1>1, HandlersSafe, PTL

\* destroy_att_notify and destroy_att_disconn: the destroy hook of a handler
\* runs once, when the handler leaves its list, however the list is emptied.
THEOREM DestroyHooksRunOnce ==
    Spec => []HooksOnce
<1>1. HandlersInv => HooksOnce
  <2> SUFFICES ASSUME HandlersInv, NEW id \in Registered
               PROVE  hooks[id] = IF id \in Taken \/ (id \in Listed /\ ~att.freed) THEN 0 ELSE 1
    BY DEF HooksOnce
  <2>1. id \in Ids /\ ~(id >= att.next_reg_id)
    BY InvFields, Numbers DEF Registered
  <2>2. Hooked(att, stack, hooks)
    BY DEF HandlersInv
  <2>3. att.freed => id \notin Listed
    BY EmptyList DEF HandlersInv, Shape, Listed
  <2>4. id \in Taken <=> \E i \in Levels(stack) : id \in ToSet(stack[i].rest)
    BY InvFields DEF Taken, Stacked
  <2> QED
    BY <2>1, <2>2, <2>3, <2>4 DEF Hooked, Listed
<1> QED
  BY <1>1, HandlersSafe, PTL

\* att.c:846, att.c:1213: callbacks that change the lists make handle_notify
\* and disconnect_cb pass over nobody.
THEOREM WalksMissNobody ==
    Spec => []NobodyMissed
<1>1. HandlersInv => NobodyMissed
  <2> SUFFICES ASSUME HandlersInv PROVE ToldOnce /\ OfferedToAll
    BY DEF NobodyMissed
  <2>1. DOMAIN stack = Levels(stack) /\ att.notify \in Seq(Ids)
    BY InvFields DEF Stacked
  <2>2. ToldOnce
    <3>1. Telling(att, stack, told, given)
      BY DEF HandlersInv
    <3>2. ASSUME ~att.io, \A i \in DOMAIN stack : stack[i].kind \notin {"ops", "disconn"},
                 NEW id \in Registered, att.for[id] = Disconn, id \notin given
          PROVE  told[id] = 1
      BY <2>1, <3>1, <3>2 DEF Telling, Registered
    <3>3. \A id \in Ids : told[id] <= 1
      BY <3>1 DEF Telling
    <3> QED
      BY <3>2, <3>3 DEF ToldOnce
  <2>3. OfferedToAll
    <3> SUFFICES ASSUME NEW i \in Levels(stack), stack[i].kind = "notify",
                        stack[i].entry = None \/ att.notify = <<>>
                 PROVE  stack[i].due \subseteq given
      BY <2>1 DEF OfferedToAll
    <3>1. /\ stack[i].due \subseteq given \cup ToSet(att.notify)
          /\ stack[i].entry = None => stack[i].due \subseteq given
      BY DEF HandlersInv, Offering
    <3> QED
      BY <3>1, EmptyList
  <2> QED
    BY <2>2, <2>3
<1> QED
  BY <1>1, HandlersSafe, PTL

\* att.c:535: a handler that was unregistered is not called again, neither
\* with a PDU nor with the disconnection that is being reported.
THEOREM UnregisteredAreSilent ==
    Spec => SilentAfterUnregister
<1> DEFINE Silent == (stack' # <<>> /\ stack' # stack) =>
                       LET f == stack'[Len(stack')]
                       IN f.kind \in {"notify", "disconn"} /\ f.at # None /\ Len(stack') = Len(stack)
                            => f.at \notin given
<1>1. HandlersInv /\ [Next]_vars => [Silent]_vars
  <2> DEFINE g == stack'[Len(stack')]
  <2> SUFFICES ASSUME HandlersInv, Next, stack' # <<>>, stack' # stack,
                      g.kind \in {"notify", "disconn"}, g.at # None, Len(stack') = Len(stack)
               PROVE  g.at \notin given
    OBVIOUS
  <2>1. Stacked(stack) /\ stack \in Seq(FrameType) /\ Known(att, stack, given)
        /\ Len(stack) \in Nat /\ HandlersInv'
    BY InvFields, HandlersNext DEF HandlersInv, Stacked
  <2>2. ASSUME NEW f, stack # <<>>, stack' = WithTop(f) PROVE g = f
    <3>1. Len(stack) \in DOMAIN stack
      BY <2>1, <2>2 DEF Stacked
    <3> QED
      BY <2>2, <3>1 DEF WithTop
  <2>3. \A f : stack' # Append(stack, f)
    BY <2>1, AppendProperties
  <2>4. stack # <<>>
    <3>1. stack' \in Seq(FrameType) /\ stack' # <<>>
      BY <2>1 DEF HandlersInv, Types
    <3> QED
      BY <2>1, <3>1, Elements
  <2>5. stack' # Front(stack)
    <3>1. ASSUME stack' = Front(stack) PROVE FALSE
      <4>1. Popped(stack, stack')
        BY <2>1, <2>4, <3>1, FrontIs
      <4> QED
        BY <4>1 DEF Popped, Levels
    <3> QED
      BY <3>1
  <2>6. Top \in FrameType
    BY <2>1, <2>4 DEF Stacked, Top
  <2> DEFINE disconn == Frame("disconn", None, "none", FirstOf(att.disconn), <<>>, {})
  <2>7. disconn.at = None /\ \A todo : Series(todo).kind = "series"
    BY DEF Series, Frame
  <2> HIDE DEF disconn
  <2>8. ASSUME NotifyTurn PROVE g.at \notin given
    <3>1. CASE stack' = WithTop(Series(<<"unref">>))
      <4>1. g = Series(<<"unref">>)
        BY <2>2, <2>4, <3>1
      <4> QED
        BY <4>1, <2>7
    <3>2. CASE /\ Top.entry \in ToSet(att.notify)
               /\ stack' = WithTop([Top EXCEPT
                    !.entry = NextOf(att.notify, Top.entry),
                    !.at = IF Match(Top.entry, Top.op) THEN Top.entry ELSE None,
                    !.due = @ \ {Top.entry}])
      <4>1. g.at = IF Match(Top.entry, Top.op) THEN Top.entry ELSE None
        BY <2>2, <2>4, <2>6, <3>2 DEF FrameType
      <4> QED
        BY <4>1, <2>1, <3>2 DEF Known
    <3> QED
      BY <2>8, <3>1, <3>2 DEF NotifyTurn
  <2>9. ASSUME DisconnTurn PROVE g.at \notin given
    <3>1. CASE stack' = WithTop(Series(<<"notify", "disconn", "unref">>))
      <4>1. g = Series(<<"notify", "disconn", "unref">>)
        BY <2>2, <2>4, <3>1
      <4> QED
        BY <4>1, <2>7
    <3>2. CASE /\ Top.entry \in ToSet(att.disconn)
               /\ stack' = WithTop([Top EXCEPT
                    !.entry = NextOf(att.disconn, Top.entry),
                    !.at = IF Tells(Top.entry) THEN Top.entry ELSE None])
      <4>1. g.at = IF Tells(Top.entry) THEN Top.entry ELSE None
        BY <2>2, <2>4, <2>6, <3>2 DEF FrameType
      <4> QED
        BY <4>1, <2>1, <3>2 DEF Known, Tells
    <3> QED
      BY <2>9, <3>1, <3>2 DEF DisconnTurn
  <2>10. ASSUME SeriesTurn PROVE FALSE
    <3> DEFINE f == [Top EXCEPT !.todo = Tail(@)]
    <3>1. Top.kind = "series"
      BY <2>10 DEF SeriesTurn, Going
    <3>2. f.kind = "series" /\ [Top EXCEPT !.at = Head(Top.rest), !.rest = Tail(@)].kind = "series"
      BY <2>6, <3>1 DEF FrameType
    <3>3. \A x : [f EXCEPT !.rest = x].kind = "series"
      BY <2>6, <3>1 DEF FrameType
    <3> QED
      BY <2>2, <2>4, <2>5, <2>10, <2>7, <3>2, <3>3 DEF SeriesTurn
  <2>11. ASSUME Return \/ OpsDone PROVE FALSE
    <3>1. CASE Return
      BY <2>2, <2>4, <2>6, <3>1 DEF Return, FrameType
    <3>2. CASE OpsDone
      <4>1. stack' = WithTop(disconn)
        BY <3>2 DEF OpsDone, disconn
      <4> QED
        BY <4>1, <2>2, <2>4, <2>7
    <3> QED
      BY <2>11, <3>1, <3>2
  <2> QED
    BY <2>3, <2>4, <2>5, <2>8, <2>9, <2>10, <2>11
       DEF Next, Register, Unregister, UnregisterDisconnect, Unregistered, UnregisterAll, Unref,
           Receive, Disconnect, OneDone, Wild
<1> QED
  BY <1>1, HandlersSafe, PTL DEF Spec, SilentAfterUnregister

=============================================================================
