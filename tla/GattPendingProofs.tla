------------------------- MODULE GattPendingProofs -------------------------
(***************************************************************************)
(* Theorems about GattPending: whoever ends an operation that is pending,  *)
(* the owner, its timer or the end of its attribute, the loop, the         *)
(* database and the server agree on what is left, each func is called      *)
(* once, and freed memory is used only in the three cases it names.        *)
(* All for any number of attributes, operations, servers and descriptors.  *)
(*                                                                         *)
(* The functions of a world are taken one at a time.  Between them the     *)
(* invariant has one gap: the op whose read or write was just taken from   *)
(* its queue waits for nothing, until it is over or asks again.            *)
(***************************************************************************)
EXTENDS GattPending, TLAPS, SequenceTheorems, WellFoundedInduction

-----------------------------------------------------------------------------
(* Numbers and sequences *)

\* A set of numbers that is not empty has a least one.
LEMMA Least ==
    ASSUME NEW T, T \subseteq Nat, T # {}
    PROVE  \E x \in T : \A y \in T : x <= y
<1>1. PICK x \in T : \A y \in T : ~(<<y, x>> \in OpToRel(<, Nat))
  BY NatLessThanWellFounded, WFMin
<1>2. \A y \in T : ~(y < x)
  BY <1>1 DEF OpToRel
<1> QED
  BY <1>2

\* Induction over numbers, with a set of numbers for the property.
LEMMA Counting ==
    ASSUME NEW n \in Nat, NEW T, 0 \in T,
           \A k \in 0 .. n - 1 : k \in T => k + 1 \in T
    PROVE  0 .. n \subseteq T
<1> SUFFICES ASSUME (0 .. n) \ T # {} PROVE FALSE
  OBVIOUS
<1>1. PICK x \in (0 .. n) \ T : \A y \in (0 .. n) \ T : x <= y
  <2>1. (0 .. n) \ T \subseteq Nat
    OBVIOUS
  <2> QED
    BY <2>1, Least
<1>2. x - 1 \in 0 .. n - 1 /\ (x - 1) + 1 = x /\ x - 1 \in 0 .. n
  BY <1>1
<1> QED
  BY <1>1, <1>2

----------------------------------------------------------------------------
(* Types *)

Kinds == {"none"} \cup Slotted \cup Raw
SlotNames == {"read", "write"}
Events == [fd : Numbers, wild : BOOLEAN]
Owners == Ids \cup {Free, Io, Owner}
Pendings == [attrib : Attrs \cup {None}, kind : {"none", "read", "write"},
             timeout_id : Numbers, op : Ids \cup {None}]
Ops == [kind : Kinds, server : 0 .. MaxServers, db_data : Seq(Attrs)]
Loops == [list : [Numbers -> Owners], batch : Seq(Events),
          terminate : BOOLEAN, returned : BOOLEAN]
Dbs == [pending : [Ids -> Pendings], queued : SUBSET Ids,
        next : 1 .. MaxPending + 1, alive : SUBSET Attrs]
Gatts == [server : 0 .. MaxServers, slot : [SlotNames -> Ids \cup {None}],
          op : [Ids -> Ops]]
Turns(l) == 1 .. Len(l.batch)
Worlds == [loop : Loops, db : Dbs, gatt : Gatts, inside : Ids \cup {None, Owner},
           crashed : BOOLEAN, done : [Ids -> Nat], answers : [Ids -> Nat],
           stray : BOOLEAN, prompt : BOOLEAN]

----------------------------------------------------------------------------
(* The invariant of a world; o is the op that is being completed, 0 if     *)
(* there is none                                                           *)

\* What is queued was asked for an attribute, by an op.
Filled(w) == \A p \in w.db.queued :
    w.db.pending[p].attrib \in Attrs /\ w.db.pending[p].op \in Ids

\* CompletedOnce of a world.
Counted(w) == \A p \in Ids :
    w.done[p] = IF p < w.db.next /\ p \notin w.db.queued THEN 1 ELSE 0

\* Numbers that were not given out yet stand for nothing.
Fresh(w) == \A q \in Ids : q >= w.db.next =>
    w.gatt.op[q].kind = "none" /\ w.answers[q] = 0 /\ q \notin w.db.queued

\* What is not an op holds nothing.
Blank(w) == \A q \in Ids : w.gatt.op[q].kind = "none" => w.gatt.op[q] = NoOp

\* The server's pending op is one of its own, of the kind of the slot.
Slots(w) == \A s \in SlotNames : w.gatt.slot[s] # None =>
    /\ w.gatt.slot[s] \in Ids /\ w.gatt.server # 0
    /\ w.gatt.op[w.gatt.slot[s]].server = w.gatt.server
    /\ SlotOf(w.gatt.op[w.gatt.slot[s]].kind) = s
    /\ w.gatt.op[w.gatt.slot[s]].kind \in Slotted

\* An op that the server knows of and that has a server is its pending op.
Held(w) == \A q \in Ids :
    w.gatt.op[q].server # 0 /\ w.gatt.op[q].kind \in Slotted =>
       w.gatt.slot[SlotOf(w.gatt.op[q].kind)] = q

\* An op that the server does not know of keeps its pointer to it, which is
\* right unless the server was dropped too soon.
Loose(w) == \A q \in Ids : w.gatt.op[q].kind \in Raw =>
    w.gatt.op[q].server # 0 /\ (w.stray \/ w.gatt.op[q].server = w.gatt.server)

\* An op is there as long as something is queued for it, or it is completed.
Waits(w, o) == \A q \in Ids : w.gatt.op[q].kind # "none" <=>
    (q = o \/ \E p \in w.db.queued : w.db.pending[p].op = q)

\* An op waits for one thing at a time.
Alone(w, o) == \A p \in w.db.queued :
    /\ w.db.pending[p].op # o
    /\ \A q \in w.db.queued : w.db.pending[p].op = w.db.pending[q].op => p = q

\* AnsweredOnce of a world.
Told(w) == \A q \in Ids :
    w.answers[q] <= 1 /\ (w.gatt.op[q].kind # "none" => w.answers[q] = 0)

\* What a Read By Type still has to read is there unless it was destroyed too
\* soon.
Findable(w) == ~w.stray => \A q \in Ids : w.gatt.op[q].kind = "by_type" =>
    \A k \in 1 .. Len(w.gatt.op[q].db_data) :
       w.gatt.op[q].db_data[k] \in w.db.alive

\* Ops, what is queued and the server agree.
Agrees(w, o) == Blank(w) /\ Slots(w) /\ Held(w) /\ Loose(w) /\ Waits(w, o)
                /\ Alone(w, o) /\ Told(w) /\ Findable(w)

Server(w, o) == Fresh(w) /\ Agrees(w, o)

\* The next number stands for nothing that is queued, those behind it for nothing.
Later(w) == /\ w.db.next \notin w.db.queued
            /\ \A q \in Ids : q > w.db.next =>
                  w.gatt.op[q].kind = "none" /\ w.answers[q] = 0 /\ q \notin w.db.queued

\* TimersMatch of a world; 0 is no timer's number.
Timers(w) ==
    /\ w.loop.list[0] \notin Ids
    /\ ~w.loop.returned =>
        /\ \A n \in Numbers : w.loop.list[n] \in Ids =>
              w.loop.list[n] \in w.db.queued /\ w.db.pending[w.loop.list[n]].timeout_id = n
        /\ \A p \in w.db.queued : w.db.pending[p].timeout_id # 0 =>
              w.loop.list[w.db.pending[p].timeout_id] = p

\* No two events of a round have the same descriptor, none is wild unless the
\* owner made it so, and behind the loop there is none.
Rounds(w) ==
    /\ \A i, j \in Turns(w.loop) :
          w.loop.batch[i].fd = w.loop.batch[j].fd => i = j
    /\ ~w.stray => \A i \in Turns(w.loop) : ~w.loop.batch[i].wild
    /\ w.loop.returned => w.loop.batch = <<>> /\ w.loop.terminate /\ w.inside # None

\* A prompt owner has one thing to answer, and only while he runs.
Prompt(w) == w.prompt =>
    /\ \A p, q \in w.db.queued : p = q
    /\ w.inside = None => w.db.queued = {}
    /\ \A i \in Turns(w.loop) : w.loop.list[w.loop.batch[i].fd] \in {Io, Owner}
    /\ w.loop.returned => w.db.queued = {} /\ \A n \in Numbers : w.loop.list[n] \notin Ids

Base(w) == w \in Worlds /\ Filled(w) /\ (w.crashed => w.stray) /\ (w.prompt => ~w.stray)
Sound(w) == Counted(w) /\ Timers(w) /\ Rounds(w) /\ Prompt(w)

Inv(w, o) == Base(w) /\ (~w.crashed => Sound(w) /\ Server(w, o))

PendingInv == Inv(World, 0)

----------------------------------------------------------------------------
(* The loop *)

\* What removing a descriptor leaves of the loop.
LEMMA RemovedIs ==
    ASSUME NEW l \in Loops, NEW n \in Numbers
    PROVE  /\ Removed(l, n) \in Loops
           /\ Removed(l, n).list = [l.list EXCEPT ![n] = Free]
           /\ Removed(l, n).terminate = l.terminate
           /\ Removed(l, n).returned = l.returned
           /\ Turns(Removed(l, n)) = Turns(l)
           /\ \A i \in Turns(l) : Removed(l, n).batch[i].fd = l.batch[i].fd
           /\ \A i \in Turns(l) : Removed(l, n).batch[i].wild <=>
                 (l.batch[i].wild \/ (l.list[n] # Free /\ l.batch[i].fd = n))
<1> DEFINE b == [i \in DOMAIN l.batch |-> [l.batch[i] EXCEPT
                     !.wild = @ \/ (l.list[n] # Free /\ l.batch[i].fd = n)]]
           t == [l.list EXCEPT ![n] = Free]
<1>1. l.batch \in Seq(Events) /\ l.list \in [Numbers -> Owners]
  BY DEF Loops
<1>2. Removed(l, n) = [l EXCEPT !.list = t, !.batch = b]
  BY Zenon DEF Removed
<1>3. DOMAIN l.batch = Turns(l) /\ Len(l.batch) \in Nat
  BY <1>1 DEF Turns
<1>4. \A i \in Turns(l) : l.batch[i] \in Events
  BY <1>1 DEF Turns
<1>5. \A i \in Turns(l) :
        /\ b[i] \in Events
        /\ b[i].fd = l.batch[i].fd
        /\ b[i].wild <=> (l.batch[i].wild \/ (l.list[n] # Free /\ l.batch[i].fd = n))
  BY <1>4, <1>3 DEF Events
<1>6. b \in Seq(Events) /\ DOMAIN b = Turns(l)
  <2>1. b \in [Turns(l) -> Events]
    BY <1>3, <1>5
  <2> HIDE DEF b
  <2> QED
    BY <2>1, <1>3, SeqDef DEF Turns
<1>7. t \in [Numbers -> Owners]
  BY <1>1 DEF Owners
<1> HIDE DEF b, t
<1>8. /\ Removed(l, n) \in Loops
      /\ Removed(l, n).list = t /\ Removed(l, n).batch = b
      /\ Removed(l, n).terminate = l.terminate
      /\ Removed(l, n).returned = l.returned
  BY <1>2, <1>6, <1>7 DEF Loops
<1>9. Turns(Removed(l, n)) = Turns(l)
  <2>1. DOMAIN b = 1 .. Len(b)
    BY <1>6
  <2> QED
    BY <2>1, <1>6, <1>8 DEF Turns
<1>10. \A i \in Turns(l) :
        /\ Removed(l, n).batch[i].fd = l.batch[i].fd
        /\ Removed(l, n).batch[i].wild <=>
              (l.batch[i].wild \/ (l.list[n] # Free /\ l.batch[i].fd = n))
  BY <1>5, <1>8, Zenon
<1>11. Removed(l, n).list = [l.list EXCEPT ![n] = Free]
  BY <1>8 DEF t
<1> QED
  BY <1>8, <1>9, <1>10, <1>11, Zenon

\* An event of a round is of a descriptor.
LEMMA FdIs ==
    ASSUME NEW l \in Loops, NEW k \in Turns(l)
    PROVE  l.batch[k].fd \in Numbers
<1>1. l.batch \in Seq(Events)
  BY DEF Loops
<1>2. l.batch[k] \in Events
  BY <1>1 DEF Turns
<1> QED
  BY <1>2 DEF Events

\* Two rounds of the same events are the same.
LEMMA SameRound ==
    ASSUME NEW l \in Loops, NEW m \in Loops, Turns(m) = Turns(l),
           \A i \in Turns(l) : /\ m.batch[i].fd = l.batch[i].fd
                               /\ m.batch[i].wild <=> l.batch[i].wild
    PROVE  m.batch = l.batch
<1>1. m.batch \in Seq(Events) /\ l.batch \in Seq(Events)
  BY DEF Loops
<1>2. ASSUME NEW i \in Turns(l) PROVE m.batch[i] = l.batch[i]
  <2>1. m.batch[i] \in Events /\ l.batch[i] \in Events
    BY <1>1 DEF Turns
  <2>2. m.batch[i].fd = l.batch[i].fd /\ (m.batch[i].wild <=> l.batch[i].wild)
    OBVIOUS
  <2>3. m.batch[i].wild = l.batch[i].wild
    <3>1. m.batch[i].wild \in BOOLEAN /\ l.batch[i].wild \in BOOLEAN
      BY <2>1 DEF Events
    <3> QED
      BY <3>1, <2>2, Zenon
  <2>4. \A e \in Events : e = [fd |-> e.fd, wild |-> e.wild]
    BY DEF Events
  <2> QED
    BY <2>1, <2>2, <2>3, <2>4
<1>3. DOMAIN m.batch = Turns(m) /\ DOMAIN l.batch = Turns(l)
  BY <1>1 DEF Turns
<1>4. /\ m.batch = [i \in Turns(l) |-> m.batch[i]]
      /\ l.batch = [i \in Turns(l) |-> l.batch[i]]
  BY <1>1, <1>3
<1> QED
  BY <1>2, <1>4

\* Where no event of the round is of the descriptor, the round stays.
LEMMA RemovedQuietly ==
    ASSUME NEW l \in Loops, NEW n \in Numbers,
           \A i \in Turns(l) : l.batch[i].fd # n
    PROVE  Removed(l, n).batch = l.batch
<1>1. Removed(l, n) \in Loops /\ Turns(Removed(l, n)) = Turns(l)
  BY RemovedIs
<1>2. \A k \in Turns(l) : Removed(l, n).batch[k].fd = l.batch[k].fd
  BY RemovedIs
<1>3. \A k \in Turns(l) : Removed(l, n).batch[k].wild <=>
            (l.batch[k].wild \/ (l.list[n] # Free /\ l.batch[k].fd = n))
  BY RemovedIs
<1>4. \A k \in Turns(l) : Removed(l, n).batch[k].wild <=> l.batch[k].wild
  BY <1>3, Zenon
<1> QED
  BY <1>1, <1>2, <1>4, SameRound

\* The number a new descriptor gets is free, and is not 0.
LEMMA LowestFreeIs ==
    ASSUME NEW l \in Loops, Numbers \ Opened(l) # {}
    PROVE  /\ LowestFree(l) \in Numbers /\ LowestFree(l) # 0
           /\ l.list[LowestFree(l)] = Free
<1>1. Numbers \ Opened(l) \subseteq Nat
  BY LoopConstants DEF Numbers
<1>2. \E x \in Numbers \ Opened(l) : \A y \in Numbers \ Opened(l) : x <= y
  BY <1>1, Least
<1>3. LowestFree(l) \in Numbers \ Opened(l)
  BY <1>2 DEF LowestFree
<1> QED
  BY <1>3, LoopConstants DEF Opened

\* A descriptor that is added changes one entry of the table at most.
LEMMA AddFdIs ==
    ASSUME NEW l \in Loops, NEW x \in Owners
    PROVE  /\ AddFd(l, x) \in Loops
           /\ AddFd(l, x).list = [l.list EXCEPT ![LowestFree(l)] = x]
           /\ AddFd(l, x).batch = l.batch
           /\ AddFd(l, x).terminate = l.terminate
           /\ AddFd(l, x).returned = l.returned
<1> DEFINE n == LowestFree(l)
<1> HIDE DEF n
<1>1. l = [list |-> l.list, batch |-> l.batch, terminate |-> l.terminate,
           returned |-> l.returned]
  BY DEF Loops
<1>2. AddFd(l, x) = [list |-> [l.list EXCEPT ![n] = x], batch |-> l.batch,
                     terminate |-> l.terminate, returned |-> l.returned]
  BY <1>1 DEF AddFd, n
<1>3. [l.list EXCEPT ![n] = x] \in [Numbers -> Owners]
  <2>1. l.list \in [Numbers -> Owners]
    BY DEF Loops
  <2> QED
    BY <2>1
<1>4. n = LowestFree(l)
  BY DEF n
<1> QED
  BY <1>2, <1>3, <1>4 DEF Loops

\* A timer gets a number that was free, or none.
LEMMA TimerAddedIs ==
    ASSUME NEW l \in Loops, NEW p \in Ids
    PROVE  /\ TimerAdded(l, p) \in Loops /\ TimerId(l) \in Numbers
           /\ TimerAdded(l, p).batch = l.batch
           /\ TimerAdded(l, p).terminate = l.terminate
           /\ TimerAdded(l, p).returned = l.returned
           /\ TimerId(l) = 0 => TimerAdded(l, p).list = l.list
           /\ TimerId(l) # 0 =>
                 /\ l.list[TimerId(l)] = Free
                 /\ TimerAdded(l, p).list = [l.list EXCEPT ![TimerId(l)] = p]
<1>1. p \in Owners
  BY DEF Owners
<1>2. CASE Fits(l)
  <2>1. TimerId(l) = LowestFree(l) /\ TimerAdded(l, p) = AddFd(l, p)
    BY <1>2 DEF TimerId, TimerAdded
  <2>2. Numbers \ Opened(l) # {}
    BY <1>2 DEF Fits
  <2> QED
    BY <2>1, <2>2, <1>1, LowestFreeIs, AddFdIs
<1>3. CASE ~Fits(l)
  <2>1. TimerId(l) = 0 /\ TimerAdded(l, p) = l
    BY <1>3 DEF TimerId, TimerAdded
  <2> QED
    BY <2>1, LoopConstants DEF Numbers
<1> QED
  BY <1>2, <1>3

\* Behind an event are the events of the round that follow it.
LEMMA NextEventIs ==
    ASSUME NEW l \in Loops, l.batch # <<>>
    PROVE  /\ NextEvent(l) \in Loops /\ 1 \in Turns(l)
           /\ NextEvent(l).list = l.list
           /\ NextEvent(l).terminate = l.terminate
           /\ NextEvent(l).returned = l.returned
           /\ \A i \in Turns(NextEvent(l)) :
                 i \in Nat /\ i + 1 \in Turns(l) /\ i + 1 # 1
                 /\ NextEvent(l).batch[i] = l.batch[i + 1]
<1>1. l.batch \in Seq(Events)
  BY DEF Loops
<1>2. /\ Tail(l.batch) \in Seq(Events) /\ Len(l.batch) >= 1
      /\ Len(Tail(l.batch)) = Len(l.batch) - 1
      /\ \A i \in 1 .. Len(Tail(l.batch)) : Tail(l.batch)[i] = l.batch[i + 1]
  BY <1>1
<1>3. /\ NextEvent(l) \in Loops /\ NextEvent(l).batch = Tail(l.batch)
      /\ NextEvent(l).list = l.list
      /\ NextEvent(l).terminate = l.terminate
      /\ NextEvent(l).returned = l.returned
  BY <1>2 DEF Loops, NextEvent
<1>4. Len(l.batch) \in Nat
  BY <1>1
<1>5. \A i \in Turns(NextEvent(l)) :
        i \in Nat /\ i + 1 \in 1 .. Len(l.batch) /\ i + 1 # 1
        /\ NextEvent(l).batch[i] = l.batch[i + 1]
  BY <1>2, <1>3, <1>4 DEF Turns
<1> QED
  BY <1>2, <1>3, <1>4, <1>5 DEF Turns

----------------------------------------------------------------------------
(* What the functions of a world change *)

\* A read or write taken from its queue, its timer removed, before its func.
Taken(w, p) ==
    LET id == w.db.pending[p].timeout_id
    IN [w EXCEPT !.loop = TimerRemoved(@, id),
                 !.stray = @ \/ (id # 0 /\ FreesEvent(w.loop, id)),
                 !.db = [w.db EXCEPT !.pending = [@ EXCEPT ![p] = Unused]],
                 !.done = [w.done EXCEPT ![p] = @ + 1]]

\* x is w without the read or write p, but for the loop and stray.
Takes(x, w, p) ==
    /\ x \in Worlds
    /\ x.db.pending = [w.db.pending EXCEPT ![p] = Unused]
    /\ x.db.queued = w.db.queued \ {p}
    /\ x.db.next = w.db.next /\ x.db.alive = w.db.alive
    /\ x.done = [w.done EXCEPT ![p] = @ + 1]
    /\ x.gatt = w.gatt /\ x.answers = w.answers /\ x.inside = w.inside
    /\ x.crashed = w.crashed /\ x.prompt = w.prompt
    /\ x.loop.terminate = w.loop.terminate /\ x.loop.returned = w.loop.returned

\* What a func is called with.
LEMMA ResultIs ==
    ASSUME NEW w, NEW p, NEW err, NEW full
    PROVE  Result(w, p, err, full) =
              Completed(Taken(w, p), w.db.pending[p].op, err, full)
BY Zenon DEF Result, Taken

\* The fields of a world.
LEMMA WorldIs ==
    ASSUME NEW w \in Worlds
    PROVE  /\ w.loop \in Loops /\ w.db \in Dbs /\ w.gatt \in Gatts
           /\ w.db.pending \in [Ids -> Pendings] /\ w.db.queued \subseteq Ids
           /\ w.db.next \in 1 .. MaxPending + 1 /\ w.db.alive \subseteq Attrs
           /\ w.gatt.server \in 0 .. MaxServers
           /\ w.gatt.slot \in [SlotNames -> Ids \cup {None}]
           /\ w.gatt.op \in [Ids -> Ops]
           /\ w.loop.list \in [Numbers -> Owners] /\ w.loop.batch \in Seq(Events)
           /\ w.loop.terminate \in BOOLEAN /\ w.loop.returned \in BOOLEAN
           /\ w.inside \in Ids \cup {None, Owner}
           /\ w.crashed \in BOOLEAN /\ w.stray \in BOOLEAN /\ w.prompt \in BOOLEAN
           /\ w.done \in [Ids -> Nat] /\ w.answers \in [Ids -> Nat]
BY DEF Worlds, Loops, Dbs, Gatts

\* The queue without one that is in it.
LEMMA DequeuedIs ==
    ASSUME NEW w \in Worlds, NEW p \in Ids
    PROVE  /\ Dequeued(w, p) \in Worlds
           /\ Dequeued(w, p).db.queued = w.db.queued \ {p}
           /\ Dequeued(w, p).db.pending = w.db.pending
           /\ Dequeued(w, p).db.next = w.db.next
           /\ Dequeued(w, p).db.alive = w.db.alive
           /\ Dequeued(w, p).loop = w.loop /\ Dequeued(w, p).gatt = w.gatt
           /\ Dequeued(w, p).inside = w.inside /\ Dequeued(w, p).crashed = w.crashed
           /\ Dequeued(w, p).done = w.done /\ Dequeued(w, p).answers = w.answers
           /\ Dequeued(w, p).stray = w.stray /\ Dequeued(w, p).prompt = w.prompt
<1> DEFINE d == [w.db EXCEPT !.queued = @ \ {p}]
<1>1. w.db \in Dbs /\ w.db.queued \subseteq Ids
  BY WorldIs
<1>2. /\ d \in Dbs /\ d.queued = w.db.queued \ {p} /\ d.pending = w.db.pending
      /\ d.next = w.db.next /\ d.alive = w.db.alive
  BY <1>1 DEF Dbs
<1>3. Dequeued(w, p) = [w EXCEPT !.db = d]
  BY DEF Dequeued
<1> HIDE DEF d
<1>4. /\ Dequeued(w, p) \in Worlds /\ Dequeued(w, p).db = d
      /\ Dequeued(w, p).loop = w.loop /\ Dequeued(w, p).gatt = w.gatt
      /\ Dequeued(w, p).inside = w.inside /\ Dequeued(w, p).crashed = w.crashed
      /\ Dequeued(w, p).done = w.done /\ Dequeued(w, p).answers = w.answers
      /\ Dequeued(w, p).stray = w.stray /\ Dequeued(w, p).prompt = w.prompt
  BY <1>2, <1>3 DEF Worlds
<1> QED
  BY <1>2, <1>4

\* A timer that is being handled is not its operation's any more.
LEMMA TimerForgottenIs ==
    ASSUME NEW w \in Worlds, NEW p \in Ids
    PROVE  /\ TimerForgotten(w, p) \in Worlds
           /\ TimerForgotten(w, p).db.queued = w.db.queued
           /\ TimerForgotten(w, p).db.pending[p].timeout_id = 0
           /\ TimerForgotten(w, p).db.pending[p].op = w.db.pending[p].op
           /\ [TimerForgotten(w, p).db.pending EXCEPT ![p] = Unused] =
                [w.db.pending EXCEPT ![p] = Unused]
           /\ TimerForgotten(w, p).db.next = w.db.next
           /\ TimerForgotten(w, p).db.alive = w.db.alive
           /\ TimerForgotten(w, p).loop = w.loop /\ TimerForgotten(w, p).gatt = w.gatt
           /\ TimerForgotten(w, p).inside = w.inside
           /\ TimerForgotten(w, p).crashed = w.crashed
           /\ TimerForgotten(w, p).done = w.done
           /\ TimerForgotten(w, p).answers = w.answers
           /\ TimerForgotten(w, p).stray = w.stray
           /\ TimerForgotten(w, p).prompt = w.prompt
<1> DEFINE b == [w.db.pending[p] EXCEPT !.timeout_id = 0]
           f == [w.db.pending EXCEPT ![p] = b]
           d == [w.db EXCEPT !.pending = f]
<1>1. w.db \in Dbs /\ w.db.pending \in [Ids -> Pendings] /\ 0 \in Numbers
  BY WorldIs, LoopConstants DEF Numbers
<1>2. b \in Pendings /\ b.timeout_id = 0 /\ b.op = w.db.pending[p].op
  BY <1>1 DEF Pendings
<1>3. TimerForgotten(w, p) = [w EXCEPT !.db = d]
  BY DEF TimerForgotten
<1> HIDE DEF b
<1>4. /\ f \in [Ids -> Pendings] /\ f[p] = b
      /\ [f EXCEPT ![p] = Unused] = [w.db.pending EXCEPT ![p] = Unused]
  BY <1>1, <1>2
<1> HIDE DEF f
<1>5. /\ d \in Dbs /\ d.pending = f /\ d.queued = w.db.queued
      /\ d.next = w.db.next /\ d.alive = w.db.alive
  BY <1>1, <1>4 DEF Dbs
<1> HIDE DEF d
<1>6. LET x == TimerForgotten(w, p)
      IN /\ x \in Worlds /\ x.db = d
         /\ x.loop = w.loop /\ x.gatt = w.gatt /\ x.inside = w.inside
         /\ x.crashed = w.crashed /\ x.done = w.done /\ x.answers = w.answers
         /\ x.stray = w.stray /\ x.prompt = w.prompt
  BY <1>3, <1>5 DEF Worlds
<1> QED
  BY <1>2, <1>4, <1>5, <1>6


\* Removing a timer: nothing without a number, else its descriptor.
LEMMA TimerRemovedIs ==
    ASSUME NEW l \in Loops, NEW id \in Numbers
    PROVE  /\ TimerRemoved(l, id) \in Loops
           /\ TimerRemoved(l, id).terminate = l.terminate
           /\ TimerRemoved(l, id).returned = l.returned
           /\ id = 0 => TimerRemoved(l, id) = l
           /\ id # 0 => TimerRemoved(l, id) = Removed(l, id)
<1>1. CASE id = 0
  BY <1>1, Zenon DEF TimerRemoved
<1>2. CASE id # 0
  <2>1. TimerRemoved(l, id) = Removed(l, id)
    BY <1>2 DEF TimerRemoved
  <2>2. /\ Removed(l, id) \in Loops
        /\ Removed(l, id).terminate = l.terminate
        /\ Removed(l, id).returned = l.returned
    BY RemovedIs
  <2> QED
    BY <1>2, <2>1, <2>2, Zenon
<1> QED
  BY <1>1, <1>2

\* v is w without the read or write p in its queue.
Leaves(v, w, p) ==
    /\ v \in Worlds /\ v.db.queued = w.db.queued \ {p}
    /\ [v.db.pending EXCEPT ![p] = Unused] = [w.db.pending EXCEPT ![p] = Unused]
    /\ v.db.next = w.db.next /\ v.db.alive = w.db.alive
    /\ v.loop = w.loop /\ v.gatt = w.gatt
    /\ v.inside = w.inside /\ v.crashed = w.crashed
    /\ v.done = w.done /\ v.answers = w.answers
    /\ v.stray = w.stray /\ v.prompt = w.prompt

\* Taking a read or write that has left its queue.
LEMMA TakenFrom ==
    ASSUME NEW w \in Worlds, NEW v, NEW p \in Ids, Leaves(v, w, p)
    PROVE  LET x == Taken(v, p)
               id == v.db.pending[p].timeout_id
           IN /\ Takes(x, w, p) /\ id \in Numbers
              /\ x.loop = TimerRemoved(w.loop, id)
              /\ x.stray <=> (w.stray \/ (id # 0 /\ FreesEvent(w.loop, id)))
<1> DEFINE id == v.db.pending[p].timeout_id
           f == [v.db.pending EXCEPT ![p] = Unused]
           d == [v.db EXCEPT !.pending = f]
           s == v.stray \/ (id # 0 /\ FreesEvent(v.loop, id))
           l == TimerRemoved(v.loop, id)
           c == [v.done EXCEPT ![p] = @ + 1]
<1>1. /\ v \in Worlds /\ v.db.queued = w.db.queued \ {p}
      /\ f = [w.db.pending EXCEPT ![p] = Unused]
      /\ v.db.next = w.db.next /\ v.db.alive = w.db.alive
      /\ v.loop = w.loop /\ v.gatt = w.gatt
      /\ v.inside = w.inside /\ v.crashed = w.crashed
      /\ v.done = w.done /\ v.answers = w.answers
      /\ v.stray = w.stray /\ v.prompt = w.prompt
  BY DEF Leaves
<1>2. id \in Numbers
  BY <1>1, WorldIs DEF Pendings
<1>3. Taken(v, p) = [v EXCEPT !.loop = l, !.stray = s, !.db = d, !.done = c]
  BY <1>1 DEF Taken
<1>4. f \in [Ids -> Pendings]
  <2>1. Unused \in Pendings
    BY LoopConstants DEF Unused, Pendings, Numbers
  <2> QED
    BY <1>1, <2>1, WorldIs
<1>5. /\ d \in Dbs /\ d.pending = f /\ d.queued = v.db.queued
      /\ d.next = v.db.next /\ d.alive = v.db.alive
  <2> HIDE DEF f
  <2>1. v.db \in Dbs
    BY <1>1, WorldIs
  <2> QED
    BY <2>1, <1>4 DEF Dbs
<1>6. l \in Loops /\ l.terminate = v.loop.terminate /\ l.returned = v.loop.returned
  BY <1>1, <1>2, TimerRemovedIs, WorldIs
<1>7. c \in [Ids -> Nat]
  BY <1>1, WorldIs
<1>8. s \in BOOLEAN
  BY DEF s
<1>9. /\ l = TimerRemoved(w.loop, id) /\ c = [w.done EXCEPT ![p] = @ + 1]
      /\ s <=> (w.stray \/ (id # 0 /\ FreesEvent(w.loop, id)))
  BY <1>1, Zenon
<1> HIDE DEF f, d, l, c, s
<1>10. LET x == Taken(v, p)
       IN /\ x \in Worlds /\ x.db = d /\ x.loop = l /\ x.stray = s /\ x.done = c
          /\ x.gatt = v.gatt /\ x.inside = v.inside /\ x.answers = v.answers
          /\ x.crashed = v.crashed /\ x.prompt = v.prompt
  BY <1>1, <1>3, <1>5, <1>6, <1>7, <1>8 DEF Worlds
<1>12. Takes(Taken(v, p), w, p)
  BY <1>1, <1>4, <1>5, <1>6, <1>9, <1>10, Zenon DEF Takes
<1> QED
  BY <1>2, <1>9, <1>10, <1>12, Zenon


\* A read or write that is answered, or whose attribute goes.
LEMMA TakenIs ==
    ASSUME NEW w \in Worlds, NEW p \in Ids
    PROVE  LET x == Taken(Dequeued(w, p), p)
               id == w.db.pending[p].timeout_id
           IN /\ Takes(x, w, p) /\ id \in Numbers
              /\ x.loop = TimerRemoved(w.loop, id)
              /\ x.stray <=> (w.stray \/ (id # 0 /\ FreesEvent(w.loop, id)))
<1>1. Leaves(Dequeued(w, p), w, p) /\ Dequeued(w, p).db.pending = w.db.pending
  BY DequeuedIs, Zenon DEF Leaves
<1> QED
  BY <1>1, TakenFrom, Zenon

\* A read or write whose timer expires: the loop stays as it is for now.
LEMMA ExpiredIs ==
    ASSUME NEW w \in Worlds, NEW p \in Ids
    PROVE  LET v == TimerForgotten(Dequeued(w, p), p)
           IN /\ Takes(Taken(v, p), w, p)
              /\ Taken(v, p).loop = w.loop
              /\ Taken(v, p).stray <=> w.stray
              /\ v.db.pending[p].op = w.db.pending[p].op
<1> DEFINE u == Dequeued(w, p)
           v == TimerForgotten(u, p)
<1>1. Leaves(u, w, p) /\ u.db.pending = w.db.pending /\ u \in Worlds
  BY DequeuedIs, Zenon DEF Leaves
<1> HIDE DEF u
<1>2. /\ v \in Worlds /\ v.db.pending[p].timeout_id = 0
      /\ v.db.pending[p].op = u.db.pending[p].op
      /\ v.db.queued = u.db.queued
      /\ [v.db.pending EXCEPT ![p] = Unused] = [u.db.pending EXCEPT ![p] = Unused]
      /\ v.db.next = u.db.next /\ v.db.alive = u.db.alive
      /\ v.loop = u.loop /\ v.gatt = u.gatt
      /\ v.inside = u.inside /\ v.crashed = u.crashed
      /\ v.done = u.done /\ v.answers = u.answers
      /\ v.stray = u.stray /\ v.prompt = u.prompt
  BY <1>1, TimerForgottenIs
<1> HIDE DEF v
<1>3. Leaves(v, w, p)
  BY <1>1, <1>2, Zenon DEF Leaves
<1>4. /\ Takes(Taken(v, p), w, p)
      /\ Taken(v, p).loop = TimerRemoved(w.loop, 0)
      /\ Taken(v, p).stray <=> (w.stray \/ (0 # 0 /\ FreesEvent(w.loop, 0)))
  BY <1>2, <1>3, TakenFrom, Zenon
<1>5. TimerRemoved(w.loop, 0) = w.loop
  BY DEF TimerRemoved
<1> QED
  BY <1>1, <1>2, <1>4, <1>5, Zenon DEF u, v

\* The end of an op, without an answer.
LEMMA OpDestroyedIs ==
    ASSUME NEW w \in Worlds, NEW o \in Ids
    PROVE  LET x == OpDestroyed(w, o)
               s == SlotOf(w.gatt.op[o].kind)
           IN /\ x \in Worlds /\ x.loop = w.loop /\ x.db = w.db
              /\ x.inside = w.inside /\ x.crashed = w.crashed
              /\ x.done = w.done /\ x.answers = w.answers
              /\ x.stray = w.stray /\ x.prompt = w.prompt
              /\ x.gatt.server = w.gatt.server
              /\ x.gatt.op = [w.gatt.op EXCEPT ![o] = NoOp]
              /\ w.gatt.op[o].server = 0 \/ w.gatt.op[o].kind \in Raw
                    => x.gatt.slot = w.gatt.slot
              /\ w.gatt.op[o].server # 0 /\ w.gatt.op[o].kind \notin Raw
                    => x.gatt.slot = [w.gatt.slot EXCEPT ![s] = None]
<1> DEFINE s == SlotOf(w.gatt.op[o].kind)
           t == IF w.gatt.op[o].server = 0 \/ w.gatt.op[o].kind \in Raw
                THEN w.gatt.slot ELSE [w.gatt.slot EXCEPT ![s] = None]
           f == [w.gatt.op EXCEPT ![o] = NoOp]
           g == [w.gatt EXCEPT !.op = f, !.slot = t]
<1>1. w.gatt \in Gatts /\ w.gatt.op \in [Ids -> Ops]
      /\ w.gatt.slot \in [SlotNames -> Ids \cup {None}]
  BY WorldIs
<1>2. f \in [Ids -> Ops]
  <2>1. NoOp \in Ops
    BY PendingConstants DEF NoOp, Ops, Kinds
  <2> QED
    BY <1>1, <2>1
<1>3. t \in [SlotNames -> Ids \cup {None}]
  BY <1>1
<1>4. OpDestroyed(w, o) = [w EXCEPT !.gatt = g]
  BY DEF OpDestroyed
<1> HIDE DEF f, t
<1>5. g \in Gatts /\ g.server = w.gatt.server /\ g.op = f /\ g.slot = t
  BY <1>1, <1>2, <1>3 DEF Gatts
<1> HIDE DEF g
<1>6. LET x == OpDestroyed(w, o)
      IN /\ x \in Worlds /\ x.loop = w.loop /\ x.db = w.db /\ x.gatt = g
         /\ x.inside = w.inside /\ x.crashed = w.crashed
         /\ x.done = w.done /\ x.answers = w.answers
         /\ x.stray = w.stray /\ x.prompt = w.prompt
  BY <1>4, <1>5 DEF Worlds
<1>7. /\ w.gatt.op[o].server = 0 \/ w.gatt.op[o].kind \in Raw => t = w.gatt.slot
      /\ w.gatt.op[o].server # 0 /\ w.gatt.op[o].kind \notin Raw
            => t = [w.gatt.slot EXCEPT ![s] = None]
  BY DEF t
<1> QED
  BY <1>5, <1>6, <1>7 DEF f

\* The end of an op, with an answer.
LEMMA AnsweredIs ==
    ASSUME NEW w \in Worlds, NEW o \in Ids
    PROVE  LET x == Answered(w, o)
               s == SlotOf(w.gatt.op[o].kind)
           IN /\ x \in Worlds /\ x.loop = w.loop /\ x.db = w.db
              /\ x.inside = w.inside /\ x.crashed = w.crashed
              /\ x.done = w.done /\ x.answers = [w.answers EXCEPT ![o] = @ + 1]
              /\ x.stray = w.stray /\ x.prompt = w.prompt
              /\ x.gatt.server = w.gatt.server
              /\ x.gatt.op = [w.gatt.op EXCEPT ![o] = NoOp]
              /\ w.gatt.op[o].server = 0 \/ w.gatt.op[o].kind \in Raw
                    => x.gatt.slot = w.gatt.slot
              /\ w.gatt.op[o].server # 0 /\ w.gatt.op[o].kind \notin Raw
                    => x.gatt.slot = [w.gatt.slot EXCEPT ![s] = None]
<1> DEFINE c == [w.answers EXCEPT ![o] = @ + 1]
           v == [w EXCEPT !.answers = c]
<1>1. c \in [Ids -> Nat]
  BY WorldIs
<1>2. Answered(w, o) = OpDestroyed(v, o)
  BY DEF Answered
<1> HIDE DEF c
<1>3. /\ v \in Worlds /\ v.loop = w.loop /\ v.db = w.db /\ v.gatt = w.gatt
      /\ v.inside = w.inside /\ v.crashed = w.crashed
      /\ v.done = w.done /\ v.answers = c
      /\ v.stray = w.stray /\ v.prompt = w.prompt
  BY <1>1 DEF Worlds
<1> HIDE DEF v
<1>4. c = [w.answers EXCEPT ![o] = @ + 1]
  BY DEF c
<1>5. LET x == OpDestroyed(v, o)
          s == SlotOf(v.gatt.op[o].kind)
      IN /\ x \in Worlds /\ x.loop = v.loop /\ x.db = v.db
         /\ x.inside = v.inside /\ x.crashed = v.crashed
         /\ x.done = v.done /\ x.answers = v.answers
         /\ x.stray = v.stray /\ x.prompt = v.prompt
         /\ x.gatt.server = v.gatt.server
         /\ x.gatt.op = [v.gatt.op EXCEPT ![o] = NoOp]
         /\ v.gatt.op[o].server = 0 \/ v.gatt.op[o].kind \in Raw
               => x.gatt.slot = v.gatt.slot
         /\ v.gatt.op[o].server # 0 /\ v.gatt.op[o].kind \notin Raw
               => x.gatt.slot = [v.gatt.slot EXCEPT ![s] = None]
  BY <1>3, OpDestroyedIs
<1> QED
  BY <1>2, <1>3, <1>4, <1>5


\* The owner is asked for a read or write.
LEMMA AskedIs ==
    ASSUME NEW w \in Worlds, NEW a \in Attrs, NEW kind \in SlotNames,
           NEW o \in Ids, w.db.next \in Ids
    PROVE  LET x == Asked(w, a, kind, o)
               p == w.db.next
           IN /\ x \in Worlds /\ x.loop = TimerAdded(w.loop, p)
              /\ x.db.pending = [w.db.pending EXCEPT ![p] = x.db.pending[p]]
              /\ x.db.pending[p].attrib = a /\ x.db.pending[p].op = o
              /\ x.db.pending[p].timeout_id = TimerId(w.loop)
              /\ x.db.queued = w.db.queued \cup {p}
              /\ x.db.next = p + 1 /\ x.db.alive = w.db.alive
              /\ x.gatt = w.gatt /\ x.inside = p /\ x.crashed = w.crashed
              /\ x.done = w.done /\ x.answers = w.answers
              /\ x.stray = w.stray /\ x.prompt = w.prompt
<1> DEFINE p == w.db.next
           b == [attrib |-> a, kind |-> kind, timeout_id |-> TimerId(w.loop), op |-> o]
           f == [w.db.pending EXCEPT ![p] = b]
           d == [w.db EXCEPT !.pending = f, !.queued = @ \cup {p}, !.next = p + 1]
           l == TimerAdded(w.loop, p)
<1>1. /\ w.loop \in Loops /\ w.db \in Dbs /\ w.db.pending \in [Ids -> Pendings]
      /\ w.db.queued \subseteq Ids /\ w.db.next \in 1 .. MaxPending + 1
  BY WorldIs
<1>2. l \in Loops /\ TimerId(w.loop) \in Numbers
  BY <1>1, TimerAddedIs
<1>3. Asked(w, a, kind, o) = [w EXCEPT !.loop = l, !.db = d, !.inside = p]
  BY DEF Asked
<1>4. /\ b \in Pendings /\ b.attrib = a /\ b.op = o /\ b.timeout_id = TimerId(w.loop)
  BY <1>2 DEF Pendings, SlotNames
<1> HIDE DEF b, l
<1>5. f \in [Ids -> Pendings] /\ f[p] = b /\ f = [w.db.pending EXCEPT ![p] = f[p]]
  BY <1>1, <1>4
<1>6. p + 1 \in 1 .. MaxPending + 1
  BY PendingConstants DEF Ids
<1>7. w.db.queued \cup {p} \subseteq Ids
  BY <1>1
<1> HIDE DEF f
<1>8. /\ d \in Dbs /\ d.pending = f /\ d.queued = w.db.queued \cup {p}
      /\ d.next = p + 1 /\ d.alive = w.db.alive
  BY <1>1, <1>5, <1>6, <1>7 DEF Dbs
<1> HIDE DEF d
<1>9. LET x == Asked(w, a, kind, o)
      IN /\ x \in Worlds /\ x.loop = l /\ x.db = d
         /\ x.gatt = w.gatt /\ x.inside = p /\ x.crashed = w.crashed
         /\ x.done = w.done /\ x.answers = w.answers
         /\ x.stray = w.stray /\ x.prompt = w.prompt
  BY <1>2, <1>3, <1>8 DEF Worlds
<1>10. l = TimerAdded(w.loop, p)
  BY DEF l
<1> QED
  BY <1>4, <1>5, <1>8, <1>9, <1>10, Zenon

\* What of a world changes when the owner is asked.
LEMMA AskedChanges ==
    ASSUME NEW w \in Worlds, NEW a \in Attrs, NEW kind \in SlotNames,
           NEW o \in Ids, w.db.next \in Ids
    PROVE  /\ Asked(w, a, kind, o) \in Worlds
           /\ Asked(w, a, kind, o).loop = TimerAdded(w.loop, w.db.next)
           /\ Asked(w, a, kind, o).db.alive = w.db.alive
           /\ Asked(w, a, kind, o).inside = w.db.next
           /\ Asked(w, a, kind, o).crashed = w.crashed
           /\ Asked(w, a, kind, o).stray = w.stray
           /\ Asked(w, a, kind, o).prompt = w.prompt
<1> DEFINE x == Asked(w, a, kind, o)
<1>1. /\ x \in Worlds /\ x.loop = TimerAdded(w.loop, w.db.next)
      /\ x.db.pending = [w.db.pending EXCEPT ![w.db.next] = x.db.pending[w.db.next]]
      /\ x.db.alive = w.db.alive /\ x.inside = w.db.next /\ x.crashed = w.crashed
      /\ x.stray = w.stray /\ x.prompt = w.prompt
  BY AskedIs
<1> QED
  BY <1>1

\* The use of freed memory.
LEMMA CrashedIs ==
    ASSUME NEW w \in Worlds
    PROVE  /\ Crashed(w) \in Worlds /\ Crashed(w).crashed
           /\ Crashed(w).db = w.db /\ Crashed(w).stray = w.stray
           /\ Crashed(w).prompt = w.prompt
BY DEF Crashed, Worlds

----------------------------------------------------------------------------
(* The op of what was taken *)

\* What is left when a read or write has left its queue, until its op is over
\* or asks again.
LEMMA TakenServer ==
    ASSUME NEW w \in Worlds, NEW x, NEW p \in w.db.queued,
           Takes(x, w, p), Filled(w), Server(w, 0), w.stray => x.stray
    PROVE  LET o == w.db.pending[p].op
           IN Filled(x) /\ Server(x, o) /\ o \in Ids /\ x.gatt.op[o].kind # "none"
<1> DEFINE o == w.db.pending[p].op
<1>1. p \in Ids /\ w.db.pending \in [Ids -> Pendings] /\ w.db.queued \subseteq Ids
  BY WorldIs
<1>2. /\ x.db.queued = w.db.queued \ {p} /\ x.db.next = w.db.next
      /\ x.db.alive = w.db.alive /\ x.gatt = w.gatt /\ x.answers = w.answers
      /\ x.db.pending = [w.db.pending EXCEPT ![p] = Unused]
  BY DEF Takes
<1>3. \A q \in x.db.queued : q # p /\ q \in w.db.queued /\ q \in Ids
                             /\ x.db.pending[q] = w.db.pending[q]
  BY <1>1, <1>2
<1>4. o \in Ids /\ o # 0
  BY DEF Filled, Ids
<1>5. Filled(x)
  BY <1>3 DEF Filled
<1>6. /\ Fresh(x) /\ Blank(x) /\ Slots(x) /\ Held(x) /\ Loose(x) /\ Told(x)
      /\ Findable(x)
  BY <1>2 DEF Server, Agrees, Fresh, Blank, Slots, Held, Loose, Told, Findable
<1>7. Alone(x, o)
  BY <1>3 DEF Server, Agrees, Alone
<1>8. Waits(x, o) /\ x.gatt.op[o].kind # "none"
  <2>1. \A q \in Ids : w.gatt.op[q].kind # "none" <=>
           \E r \in w.db.queued : w.db.pending[r].op = q
    BY DEF Server, Agrees, Waits, Ids
  <2>2. ASSUME NEW q \in Ids
        PROVE  (\E r \in w.db.queued : w.db.pending[r].op = q) <=>
               (q = o \/ \E r \in x.db.queued : x.db.pending[r].op = q)
    BY <1>2, <1>3
  <2> QED
    BY <1>2, <1>4, <2>1, <2>2 DEF Waits
<1> QED
  BY <1>4, <1>5, <1>6, <1>7, <1>8 DEF Server, Agrees


\* x is w without the op o.
Ended(x, w, o) ==
    /\ x.gatt.server = w.gatt.server
    /\ x.gatt.op = [w.gatt.op EXCEPT ![o] = NoOp]
    /\ w.gatt.op[o].server = 0 \/ w.gatt.op[o].kind \in Raw
          => x.gatt.slot = w.gatt.slot
    /\ w.gatt.op[o].server # 0 /\ w.gatt.op[o].kind \notin Raw
          => x.gatt.slot = [w.gatt.slot EXCEPT ![SlotOf(w.gatt.op[o].kind)] = None]

\* When the op is over, with an answer or without, nothing is completed any
\* more.
LEMMA EndedServer ==
    ASSUME NEW w \in Worlds, NEW x \in Worlds, NEW o \in Ids, Ended(x, w, o),
           Filled(w), x.db = w.db, x.stray = w.stray, Server(w, o),
           x.answers = w.answers \/ x.answers = [w.answers EXCEPT ![o] = @ + 1],
           w.gatt.op[o].kind # "none"
    PROVE  Server(x, 0)
<1>1. /\ w.gatt.op \in [Ids -> Ops] /\ w.gatt.slot \in [SlotNames -> Ids \cup {None}]
      /\ w.db.queued \subseteq Ids /\ w.answers \in [Ids -> Nat]
  BY WorldIs
<1>2. /\ x.gatt.op[o] = NoOp
      /\ \A q \in Ids : q # o => x.gatt.op[q] = w.gatt.op[q]
      /\ NoOp.kind = "none" /\ NoOp.server = 0 /\ NoOp.db_data = <<>>
  BY <1>1 DEF Ended, NoOp
<1>3. \A q \in Ids : q # o => x.answers[q] = w.answers[q]
  BY <1>1
<1>4. w.answers[o] = 0 /\ x.answers[o] \in 0 .. 1
  BY <1>1 DEF Server, Agrees, Told
<1>5. o < w.db.next
  <2>1. ~(o >= w.db.next)
    BY DEF Server, Agrees, Fresh
  <2> QED
    BY <2>1, WorldIs DEF Ids
<1>6. Fresh(x)
  <2>1. \A q \in Ids : q >= w.db.next => q # o
    BY <1>5, WorldIs DEF Ids
  <2> QED
    BY <1>2, <1>3, <2>1 DEF Server, Agrees, Fresh
<1>7. Blank(x)
  BY <1>2 DEF Server, Agrees, Blank
<1>8. Told(x)
  BY <1>2, <1>3, <1>4 DEF Server, Agrees, Told
<1>9. Findable(x)
  <2>1. ASSUME ~x.stray, NEW q \in Ids, x.gatt.op[q].kind = "by_type",
               NEW k \in 1 .. Len(x.gatt.op[q].db_data)
        PROVE  x.gatt.op[q].db_data[k] \in x.db.alive
    <3>1. CASE q = o
      BY <1>2, <2>1, <3>1
    <3>2. CASE q # o
      BY <1>2, <3>2, <2>1 DEF Server, Agrees, Findable
    <3> QED
      BY <3>1, <3>2
  <2> QED
    BY <2>1 DEF Findable
<1>10. Waits(x, 0)
  <2>1. ASSUME NEW q \in Ids
        PROVE  x.gatt.op[q].kind # "none" <=>
                  (q = 0 \/ \E p \in x.db.queued : x.db.pending[p].op = q)
    <3>1. q # 0
      BY DEF Ids
    <3>2. CASE q = o
      BY <1>2, <3>1, <3>2 DEF Server, Agrees, Alone
    <3>3. CASE q # o
      BY <1>2, <3>1, <3>3 DEF Server, Agrees, Waits
    <3> QED
      BY <3>2, <3>3
  <2> QED
    BY <2>1 DEF Waits
<1>11. Alone(x, 0)
  BY DEF Server, Agrees, Alone, Filled, Ids
<1>12. \A q \in Ids : SlotOf(w.gatt.op[q].kind) \in SlotNames
  BY DEF SlotOf, SlotNames
<1>13. \A s \in SlotNames : x.gatt.slot[s] # None =>
          /\ x.gatt.slot[s] = w.gatt.slot[s] /\ x.gatt.slot[s] # o
  <2>1. ASSUME NEW s \in SlotNames, x.gatt.slot[s] # None
        PROVE  x.gatt.slot[s] = w.gatt.slot[s] /\ x.gatt.slot[s] # o
    <3>1. x.gatt.slot[s] = w.gatt.slot[s]
      BY <1>1, <1>12, <2>1 DEF Ended
    <3>2. ASSUME x.gatt.slot[s] = o PROVE FALSE
      <4>1. /\ w.gatt.op[o].server # 0 /\ SlotOf(w.gatt.op[o].kind) = s
            /\ w.gatt.op[o].kind \notin Raw
        BY <2>1, <3>1, <3>2 DEF Server, Agrees, Slots, Slotted, Raw
      <4> QED
        BY <1>1, <2>1, <4>1 DEF Ended
    <3> QED
      BY <3>1, <3>2
  <2> QED
    BY <2>1
<1>14. Slots(x)
  <2>1. ASSUME NEW s \in SlotNames, x.gatt.slot[s] # None
        PROVE  /\ x.gatt.slot[s] \in Ids /\ x.gatt.server # 0
               /\ x.gatt.op[x.gatt.slot[s]].server = x.gatt.server
               /\ SlotOf(x.gatt.op[x.gatt.slot[s]].kind) = s
               /\ x.gatt.op[x.gatt.slot[s]].kind \in Slotted
    <3>1. x.gatt.slot[s] = w.gatt.slot[s] /\ x.gatt.slot[s] # o
      BY <1>13, <2>1
    <3>2. /\ w.gatt.slot[s] \in Ids /\ w.gatt.server # 0
          /\ w.gatt.op[w.gatt.slot[s]].server = w.gatt.server
          /\ SlotOf(w.gatt.op[w.gatt.slot[s]].kind) = s
          /\ w.gatt.op[w.gatt.slot[s]].kind \in Slotted
      BY <2>1, <3>1 DEF Server, Agrees, Slots
    <3> QED
      BY <1>2, <3>1, <3>2 DEF Ended
  <2> QED
    BY <2>1 DEF Slots
<1>15. Held(x)
  <2>1. ASSUME NEW q \in Ids, x.gatt.op[q].server # 0, x.gatt.op[q].kind \in Slotted
        PROVE  x.gatt.slot[SlotOf(x.gatt.op[q].kind)] = q
    <3>1. q # o /\ x.gatt.op[q] = w.gatt.op[q]
      BY <1>2, <2>1
    <3>2. w.gatt.slot[SlotOf(w.gatt.op[q].kind)] = q
      BY <2>1, <3>1 DEF Server, Agrees, Held
    <3>3. CASE w.gatt.op[o].server = 0 \/ w.gatt.op[o].kind \in Raw
      BY <3>1, <3>2, <3>3 DEF Ended
    <3>4. CASE w.gatt.op[o].server # 0 /\ w.gatt.op[o].kind \notin Raw
      <4>1. w.gatt.slot[SlotOf(w.gatt.op[o].kind)] = o
        <5>1. w.gatt.op[o].kind \in Kinds
          BY <1>1 DEF Ops
        <5>2. w.gatt.op[o].kind \in Slotted
          BY <3>4, <5>1 DEF Kinds
        <5> QED
          BY <3>4, <5>2 DEF Server, Agrees, Held
      <4> QED
        BY <1>1, <1>12, <3>1, <3>2, <3>4, <4>1 DEF Ended
    <3> QED
      BY <3>3, <3>4
  <2> QED
    BY <2>1 DEF Held
<1>16. Loose(x)
  <2>1. "none" \notin Raw /\ x.gatt.server = w.gatt.server
    BY DEF Raw, Ended
  <2> QED
    BY <1>2, <2>1 DEF Server, Agrees, Loose
<1> QED
  BY <1>6, <1>7, <1>8, <1>9, <1>10, <1>11, <1>14, <1>15, <1>16 DEF Server, Agrees


\* An op that asks again, or for the first time, waits for what it asked for.
LEMMA AskedServer ==
    ASSUME NEW w \in Worlds, NEW a \in Attrs, NEW kind \in SlotNames,
           NEW o \in Ids, w.db.next \in Ids, Filled(w), Later(w), Agrees(w, o),
           w.gatt.op[o].kind # "none"
    PROVE  Filled(Asked(w, a, kind, o)) /\ Server(Asked(w, a, kind, o), 0)
<1> DEFINE x == Asked(w, a, kind, o)
           p == w.db.next
<1>1. /\ x.db.pending = [w.db.pending EXCEPT ![p] = x.db.pending[p]]
      /\ x.db.pending[p].attrib = a /\ x.db.pending[p].op = o
      /\ x.db.queued = w.db.queued \cup {p}
      /\ x.db.next = p + 1 /\ x.db.alive = w.db.alive
      /\ x.gatt = w.gatt /\ x.answers = w.answers /\ x.stray = w.stray
  BY AskedIs
<1> HIDE DEF x
<1>2. w.db.pending \in [Ids -> Pendings] /\ w.db.queued \subseteq Ids /\ p \notin w.db.queued
  BY WorldIs DEF Later
<1>3. \A q \in w.db.queued : q # p /\ q \in Ids /\ x.db.pending[q] = w.db.pending[q]
  BY <1>1, <1>2
<1>4. Filled(x)
  BY <1>1, <1>3 DEF Filled
<1>5. Fresh(x)
  <2>1. \A q \in Ids : q >= p + 1 => q > p /\ q # p
    BY DEF Ids
  <2> QED
    BY <1>1, <2>1 DEF Later, Fresh
<1>6. Blank(x) /\ Slots(x) /\ Held(x) /\ Loose(x) /\ Told(x) /\ Findable(x)
  <2>1. Blank(x) /\ Slots(x)
    BY <1>1, SMTT(30) DEF Agrees, Blank, Slots
  <2>2. Held(x) /\ Loose(x)
    BY <1>1, SMTT(30) DEF Agrees, Held, Loose
  <2>3. Told(x) /\ Findable(x)
    BY <1>1, SMTT(30) DEF Agrees, Told, Findable
  <2> QED
    BY <2>1, <2>2, <2>3
<1>7. Waits(x, 0)
  <2>1. ASSUME NEW q \in Ids
        PROVE  (\E r \in x.db.queued : x.db.pending[r].op = q) <=>
               (q = o \/ \E r \in w.db.queued : w.db.pending[r].op = q)
    BY <1>1, <1>3
  <2>2. \A q \in Ids : q # 0
    BY DEF Ids
  <2>3. \A q \in Ids : w.gatt.op[q].kind # "none" <=>
           (q = o \/ \E r \in w.db.queued : w.db.pending[r].op = q)
    BY DEF Agrees, Waits
  <2> QED
    BY <1>1, <2>1, <2>2, <2>3 DEF Waits
<1>8. Alone(x, 0)
  <2>1. \A q \in w.db.queued : w.db.pending[q].op # o /\ w.db.pending[q].op # 0
    BY DEF Agrees, Alone, Filled, Ids
  <2>2. \A q, r \in w.db.queued : w.db.pending[q].op = w.db.pending[r].op => q = r
    BY DEF Agrees, Alone
  <2>3. o # 0
    BY DEF Ids
  <2> QED
    BY <1>1, <1>3, <2>1, <2>2, <2>3 DEF Alone
<1> QED
  BY <1>4, <1>5, <1>6, <1>7, <1>8 DEF Server, Agrees, x

----------------------------------------------------------------------------
(* The loop and what is queued *)

\* What is queued and its timers agree when one is taken and its timer goes,
\* in either order.
LEMMA TakenSound ==
    ASSUME NEW w \in Worlds, NEW x \in Worlds, NEW p \in w.db.queued,
           Base(w), Sound(w), Fresh(w),
           x.db.pending = [w.db.pending EXCEPT ![p] = Unused],
           x.db.queued = w.db.queued \ {p}, x.db.next = w.db.next,
           x.done = [w.done EXCEPT ![p] = @ + 1],
           x.inside = w.inside, x.prompt = w.prompt,
           x.loop = TimerRemoved(w.loop, w.db.pending[p].timeout_id),
           x.stray <=> (w.stray \/ (w.db.pending[p].timeout_id # 0
                                    /\ FreesEvent(w.loop, w.db.pending[p].timeout_id)))
    PROVE  Sound(x) /\ (x.prompt => ~x.stray) /\ (w.stray => x.stray)
<1> DEFINE id == w.db.pending[p].timeout_id
<1>1. /\ w.db.pending \in [Ids -> Pendings] /\ w.db.queued \subseteq Ids
      /\ w.loop \in Loops /\ w.loop.list \in [Numbers -> Owners]
      /\ w.done \in [Ids -> Nat] /\ p \in Ids
  BY WorldIs
<1>2. id \in Numbers
  BY <1>1 DEF Pendings
<1>3. \A q \in x.db.queued : q # p /\ q \in w.db.queued /\ q \in Ids
                             /\ x.db.pending[q] = w.db.pending[q]
  BY <1>1
<1>4. /\ w.loop.list[0] \notin Ids
      /\ ~w.loop.returned => \A n \in Numbers : w.loop.list[n] \in Ids =>
            w.loop.list[n] \in w.db.queued /\ w.db.pending[w.loop.list[n]].timeout_id = n
      /\ ~w.loop.returned => \A q \in w.db.queued : w.db.pending[q].timeout_id # 0 =>
            w.loop.list[w.db.pending[q].timeout_id] = q
  BY DEF Sound, Timers
<1>5. Free \notin Ids /\ Io \notin Ids /\ Owner \notin Ids
  BY PendingNames
<1>6. x.loop.returned = w.loop.returned /\ x.loop.terminate = w.loop.terminate
  BY <1>1, <1>2, TimerRemovedIs
<1>7. /\ id = 0 => x.loop = w.loop
      /\ id # 0 => x.loop = Removed(w.loop, id)
  BY <1>1, <1>2, TimerRemovedIs
<1> HIDE DEF id
<1>8. /\ id # 0 => x.loop.list = [w.loop.list EXCEPT ![id] = Free]
      /\ Turns(x.loop) = Turns(w.loop)
      /\ \A k \in Turns(w.loop) : x.loop.batch[k].fd = w.loop.batch[k].fd
  <2>1. CASE id = 0
    BY <1>7, <2>1
  <2>2. CASE id # 0
    <3>1. /\ Removed(w.loop, id).list = [w.loop.list EXCEPT ![id] = Free]
          /\ Turns(Removed(w.loop, id)) = Turns(w.loop)
          /\ \A k \in Turns(w.loop) : Removed(w.loop, id).batch[k].fd = w.loop.batch[k].fd
      BY <1>1, <1>2, RemovedIs
    <3> QED
      BY <1>7, <2>2, <3>1
  <2> QED
    BY <2>1, <2>2
<1>9. Counted(x)
  <2>1. p < w.db.next
    <3>1. ~(p >= w.db.next)
      BY <1>1 DEF Fresh
    <3> QED
      BY <1>1, <3>1, WorldIs DEF Ids
  <2>2. w.done[p] = 0 /\ x.done[p] = 1
    BY <1>1 DEF Sound, Counted
  <2>3. ASSUME NEW q \in Ids
        PROVE  x.done[q] = IF q < x.db.next /\ q \notin x.db.queued THEN 1 ELSE 0
    <3>1. CASE q = p
      BY <2>1, <2>2, <3>1
    <3>2. CASE q # p
      BY <1>1, <3>2 DEF Sound, Counted
    <3> QED
      BY <3>1, <3>2
  <2> QED
    BY <2>3 DEF Counted
<1>10. Timers(x)
  <2>1. x.loop.list[0] \notin Ids
    BY <1>1, <1>4, <1>7, <1>8, LoopConstants DEF Numbers
  <2>2. ASSUME ~x.loop.returned, NEW n \in Numbers, x.loop.list[n] \in Ids
        PROVE  x.loop.list[n] \in x.db.queued
               /\ x.db.pending[x.loop.list[n]].timeout_id = n
    <3>1. x.loop.list[n] = w.loop.list[n] /\ (id # 0 => n # id)
      BY <1>1, <1>2, <1>5, <1>7, <1>8, <2>2
    <3>2. w.loop.list[n] \in w.db.queued /\ w.db.pending[w.loop.list[n]].timeout_id = n
      BY <1>4, <1>6, <2>2, <3>1
    <3>3. w.loop.list[n] # p
      BY <1>4, <2>2, <3>1, <3>2 DEF id
    <3> QED
      BY <1>3, <3>1, <3>2, <3>3
  <2>3. ASSUME ~x.loop.returned, NEW q \in x.db.queued, x.db.pending[q].timeout_id # 0
        PROVE  x.loop.list[x.db.pending[q].timeout_id] = q
    <3>1. w.loop.list[w.db.pending[q].timeout_id] = q /\ x.db.pending[q] = w.db.pending[q]
          /\ q # p
      BY <1>3, <1>4, <1>6, <2>3
    <3>2. id # 0 => w.loop.list[id] = p
      BY <1>4, <1>6, <2>3 DEF id
    <3>3. w.db.pending[q].timeout_id \in Numbers
      BY <1>1, <1>3 DEF Pendings
    <3> QED
      BY <1>1, <1>7, <1>8, <3>1, <3>2, <3>3
  <2> QED
    BY <2>1, <2>2, <2>3 DEF Timers
<1>11. w.stray => x.stray
  OBVIOUS
<1>12. ASSUME ~x.stray PROVE x.loop.batch = w.loop.batch
  BY <1>7, <1>12 DEF FreesEvent, id
<1>13. ASSUME w.loop.returned PROVE x.loop.batch = <<>>
  <2>1. w.loop.batch = <<>>
    BY <1>13 DEF Sound, Rounds
  <2>2. \A k \in Turns(w.loop) : w.loop.batch[k].fd # id
    BY <2>1 DEF Turns
  <2> QED
    BY <1>1, <1>2, <1>7, <2>1, <2>2, RemovedQuietly
<1>14. Rounds(x)
  <2>1. \A i, j \in Turns(w.loop) : w.loop.batch[i].fd = w.loop.batch[j].fd => i = j
    BY DEF Sound, Rounds
  <2>2. ~w.stray => \A i \in Turns(w.loop) : ~w.loop.batch[i].wild
    BY DEF Sound, Rounds
  <2>3. w.loop.returned => w.loop.terminate /\ w.inside # None
    BY DEF Sound, Rounds
  <2>4. \A i, j \in Turns(x.loop) : x.loop.batch[i].fd = x.loop.batch[j].fd => i = j
    BY <1>8, <2>1
  <2>5. ASSUME ~x.stray PROVE \A i \in Turns(x.loop) : ~x.loop.batch[i].wild
    <3>1. ~w.stray /\ x.loop.batch = w.loop.batch
      BY <1>11, <1>12, <2>5
    <3>2. Turns(x.loop) = Turns(w.loop)
      BY <1>8
    <3> QED
      BY <2>2, <3>1, <3>2
  <2>6. ASSUME x.loop.returned
        PROVE  x.loop.batch = <<>> /\ x.loop.terminate /\ x.inside # None
    <3>1. w.loop.returned /\ x.loop.terminate = w.loop.terminate
      BY <1>6, <2>6
    <3> QED
      BY <1>13, <2>3, <3>1
  <2> QED
    BY <2>4, <2>5, <2>6 DEF Rounds
<1>15. ASSUME w.prompt
       PROVE  ~w.loop.returned /\ ~w.stray /\ \A k \in Turns(w.loop) :
                 w.loop.list[w.loop.batch[k].fd] \in {Io, Owner}
                 /\ (id # 0 => w.loop.batch[k].fd # id)
  <2>1. w.loop.returned => w.db.queued = {}
    BY <1>15 DEF Sound, Prompt
  <2>2. \A k \in Turns(w.loop) : w.loop.list[w.loop.batch[k].fd] \in {Io, Owner}
    BY <1>15 DEF Sound, Prompt
  <2>3. id # 0 => w.loop.list[id] = p
    BY <1>4, <2>1 DEF id
  <2> QED
    BY <1>1, <1>5, <1>15, <2>1, <2>2, <2>3 DEF Base
<1>16. x.prompt => ~x.stray
  <2>1. ASSUME w.prompt, id # 0 PROVE ~FreesEvent(w.loop, id)
    BY <1>1, <1>2, <1>15, <2>1, RemovedQuietly DEF FreesEvent
  <2> QED
    BY <1>15, <2>1 DEF id
<1>17. Prompt(x)
  <2>1. ASSUME x.prompt PROVE /\ \A q, r \in x.db.queued : q = r
                              /\ x.inside = None => x.db.queued = {}
    BY <1>3, <2>1 DEF Sound, Prompt
  <2>2. ASSUME x.prompt, NEW k \in Turns(x.loop)
        PROVE  x.loop.list[x.loop.batch[k].fd] \in {Io, Owner}
    <3>1. k \in Turns(w.loop) /\ x.loop.batch[k].fd = w.loop.batch[k].fd
      BY <1>8, <2>2
    <3>2. w.loop.batch[k].fd \in Numbers
      BY <1>1, <3>1, FdIs
    <3>3. w.loop.list[w.loop.batch[k].fd] \in {Io, Owner}
          /\ (id # 0 => w.loop.batch[k].fd # id)
      BY <1>15, <2>2, <3>1
    <3>4. x.loop.list[w.loop.batch[k].fd] = w.loop.list[w.loop.batch[k].fd]
      <4>1. CASE id = 0
        BY <1>7, <4>1
      <4>2. CASE id # 0
        <5>1. x.loop.list = [w.loop.list EXCEPT ![id] = Free] /\ w.loop.batch[k].fd # id
          BY <1>8, <3>3, <4>2
        <5> QED
          BY <1>1, <3>2, <5>1
      <4> QED
        BY <4>1, <4>2
    <3> QED
      BY <3>1, <3>3, <3>4
  <2> QED
    BY <1>6, <1>15, <2>1, <2>2 DEF Prompt
<1> QED
  BY <1>9, <1>10, <1>11, <1>14, <1>16, <1>17 DEF Sound


\* What is queued and its timers agree when the owner is asked for one more.
LEMMA AskedSound ==
    ASSUME NEW w \in Worlds, NEW a \in Attrs, NEW kind \in SlotNames,
           NEW o \in Ids, w.db.next \in Ids,
           Sound(w), w.db.next \notin w.db.queued,
           w.prompt => w.db.queued = {} /\ ~w.loop.returned
    PROVE  Sound(Asked(w, a, kind, o))
<1> DEFINE x == Asked(w, a, kind, o)
           p == w.db.next
           id == TimerId(w.loop)
<1>1. /\ x \in Worlds /\ x.loop = TimerAdded(w.loop, p)
      /\ x.db.pending = [w.db.pending EXCEPT ![p] = x.db.pending[p]]
      /\ x.db.pending[p].timeout_id = id
      /\ x.db.queued = w.db.queued \cup {p} /\ x.db.next = p + 1
      /\ x.inside = p /\ x.done = w.done
      /\ x.stray = w.stray /\ x.prompt = w.prompt
  BY AskedIs
<1>2. /\ w.db.pending \in [Ids -> Pendings] /\ w.db.queued \subseteq Ids
      /\ w.loop \in Loops /\ w.loop.list \in [Numbers -> Owners]
      /\ w.done \in [Ids -> Nat] /\ p \in Ids /\ p \in Nat
  BY WorldIs DEF Ids
<1>3. /\ x.loop.batch = w.loop.batch /\ x.loop.terminate = w.loop.terminate
      /\ x.loop.returned = w.loop.returned /\ id \in Numbers
      /\ id = 0 => x.loop.list = w.loop.list
      /\ id # 0 => w.loop.list[id] = Free /\ x.loop.list = [w.loop.list EXCEPT ![id] = p]
  BY <1>1, <1>2, TimerAddedIs
<1>4. Counted(w) /\ Timers(w) /\ Rounds(w) /\ Prompt(w)
  BY DEF Sound
<1> HIDE DEF x, id
<1>5. p \notin w.db.queued
  OBVIOUS
<1>6. \A q \in w.db.queued : q # p /\ q \in Ids /\ x.db.pending[q] = w.db.pending[q]
  BY <1>1, <1>2, <1>5
<1>7. Counted(x)
  <2>1. ASSUME NEW q \in Ids
        PROVE  x.done[q] = IF q < x.db.next /\ q \notin x.db.queued THEN 1 ELSE 0
    <3>1. w.done[q] = IF q < p /\ q \notin w.db.queued THEN 1 ELSE 0
      BY <1>4 DEF Counted
    <3>2. CASE q = p
      BY <1>1, <1>2, <3>1, <3>2
    <3>3. CASE q # p
      BY <1>1, <1>2, <3>1, <3>3 DEF Ids
    <3> QED
      BY <3>2, <3>3
  <2> QED
    BY <2>1 DEF Counted
<1>8. Free \notin Ids /\ None \notin Ids
  BY PendingNames
<1>9. Timers(x)
  <2>1. x.loop.list[0] \notin Ids
    BY <1>2, <1>3, <1>4, LoopConstants DEF Timers, Numbers
  <2>2. ASSUME ~x.loop.returned, NEW n \in Numbers, x.loop.list[n] \in Ids
        PROVE  x.loop.list[n] \in x.db.queued
               /\ x.db.pending[x.loop.list[n]].timeout_id = n
    <3>1. CASE id # 0 /\ n = id
      BY <1>1, <1>2, <1>3, <3>1
    <3>2. CASE ~(id # 0 /\ n = id)
      <4>1. x.loop.list[n] = w.loop.list[n]
        BY <1>2, <1>3, <3>2
      <4>2. w.loop.list[n] \in w.db.queued /\ w.db.pending[w.loop.list[n]].timeout_id = n
        BY <1>3, <1>4, <2>2, <4>1 DEF Timers
      <4> QED
        BY <1>1, <1>6, <4>1, <4>2
    <3> QED
      BY <3>1, <3>2
  <2>3. ASSUME ~x.loop.returned, NEW q \in x.db.queued, x.db.pending[q].timeout_id # 0
        PROVE  x.loop.list[x.db.pending[q].timeout_id] = q
    <3>1. CASE q = p
      BY <1>1, <1>2, <1>3, <2>3, <3>1
    <3>2. CASE q # p
      <4>1. q \in w.db.queued /\ x.db.pending[q] = w.db.pending[q]
        BY <1>1, <1>6, <3>2
      <4>2. w.loop.list[w.db.pending[q].timeout_id] = q
        BY <1>3, <1>4, <2>3, <4>1 DEF Timers
      <4>3. w.db.pending[q].timeout_id \in Numbers /\ q \in Ids
        BY <1>2, <4>1 DEF Pendings
      <4> QED
        BY <1>2, <1>3, <1>8, <4>1, <4>2, <4>3
    <3> QED
      BY <3>1, <3>2
  <2> QED
    BY <2>1, <2>2, <2>3 DEF Timers
<1>10. Turns(x.loop) = Turns(w.loop)
  BY <1>3 DEF Turns
<1>11. Rounds(x)
  BY <1>1, <1>2, <1>3, <1>4, <1>8, <1>10 DEF Rounds
<1>12. Prompt(x)
  <2>1. ASSUME x.prompt
        PROVE  w.db.queued = {} /\ ~x.loop.returned
               /\ \A k \in Turns(w.loop) : w.loop.list[w.loop.batch[k].fd] \in {Io, Owner}
    BY <1>1, <1>3, <1>4, <2>1 DEF Prompt
  <2>2. ASSUME x.prompt, NEW k \in Turns(x.loop)
        PROVE  x.loop.list[x.loop.batch[k].fd] \in {Io, Owner}
    <3>1. w.loop.batch[k].fd \in Numbers
      BY <1>2, <1>10, <2>2, FdIs
    <3>2. w.loop.list[w.loop.batch[k].fd] \in {Io, Owner} /\ Free \notin {Io, Owner}
      BY <1>10, <2>1, <2>2, PendingNames
    <3> QED
      BY <1>2, <1>3, <3>1, <3>2
  <2> QED
    BY <1>1, <1>2, <1>8, <2>1, <2>2 DEF Prompt
<1> QED
  BY <1>7, <1>9, <1>11, <1>12 DEF Sound, x


----------------------------------------------------------------------------
(* The func of what was taken *)

\* Sound looks at the loop, the queue and what runs.
LEMMA SoundDepends ==
    ASSUME NEW w, NEW x, x.loop = w.loop, x.db = w.db, x.inside = w.inside,
           x.done = w.done, x.stray = w.stray, x.prompt = w.prompt
    PROVE  /\ Sound(w) => Sound(x)
           /\ Filled(w) => Filled(x)
BY DEF Sound, Counted, Timers, Rounds, Prompt, Filled

\* The op that still has to read goes on with the rest of its list.
LEMMA RestServer ==
    ASSUME NEW w \in Worlds, NEW o \in Ids, Filled(w), Server(w, o),
           w.gatt.op[o].kind # "none", w.gatt.op[o].db_data # <<>>
    PROVE  LET rest == [w.gatt.op[o] EXCEPT !.db_data = Tail(@)]
               v == [w EXCEPT !.gatt = [w.gatt EXCEPT !.op = [@ EXCEPT ![o] = rest]]]
           IN /\ v \in Worlds /\ Server(v, o) /\ v.gatt.op[o].kind # "none"
              /\ v.loop = w.loop /\ v.db = w.db /\ v.inside = w.inside
              /\ v.done = w.done /\ v.stray = w.stray /\ v.prompt = w.prompt
              /\ v.crashed = w.crashed
<1> DEFINE rest == [w.gatt.op[o] EXCEPT !.db_data = Tail(@)]
           f == [w.gatt.op EXCEPT ![o] = rest]
           g == [w.gatt EXCEPT !.op = f]
           v == [w EXCEPT !.gatt = g]
<1>1. w.gatt \in Gatts /\ w.gatt.op \in [Ids -> Ops] /\ w.gatt.op[o].db_data \in Seq(Attrs)
  BY WorldIs DEF Ops
<1>2. /\ Tail(w.gatt.op[o].db_data) \in Seq(Attrs)
      /\ \A k \in 1 .. Len(Tail(w.gatt.op[o].db_data)) :
            /\ k + 1 \in 1 .. Len(w.gatt.op[o].db_data)
            /\ Tail(w.gatt.op[o].db_data)[k] = w.gatt.op[o].db_data[k + 1]
  <2> DEFINE t == w.gatt.op[o].db_data
  <2>1. t \in Seq(Attrs) /\ t # <<>>
    BY <1>1
  <2> HIDE DEF t
  <2>2. /\ Tail(t) \in Seq(Attrs)
        /\ \A k \in 1 .. Len(Tail(t)) : k + 1 \in 1 .. Len(t) /\ Tail(t)[k] = t[k + 1]
    BY <2>1
  <2> QED
    BY <2>2 DEF t
<1>3. /\ rest \in Ops /\ rest.kind = w.gatt.op[o].kind
      /\ rest.server = w.gatt.op[o].server
      /\ rest.db_data = Tail(w.gatt.op[o].db_data)
  BY <1>1, <1>2 DEF Ops
<1> HIDE DEF rest
<1>4. f \in [Ids -> Ops] /\ f[o] = rest /\ \A q \in Ids : q # o => f[q] = w.gatt.op[q]
  BY <1>1, <1>3
<1> HIDE DEF f
<1>5. g \in Gatts /\ g.op = f /\ g.server = w.gatt.server /\ g.slot = w.gatt.slot
  BY <1>1, <1>4 DEF Gatts
<1> HIDE DEF g
<1>6. /\ v \in Worlds /\ v.gatt = g /\ v.loop = w.loop /\ v.db = w.db
      /\ v.inside = w.inside /\ v.done = w.done /\ v.answers = w.answers
      /\ v.stray = w.stray /\ v.prompt = w.prompt /\ v.crashed = w.crashed
  BY <1>5 DEF Worlds
<1> HIDE DEF v
<1>7. \A q \in Ids : /\ v.gatt.op[q].kind = w.gatt.op[q].kind
                     /\ v.gatt.op[q].server = w.gatt.op[q].server
  BY <1>3, <1>4, <1>5, <1>6
<1>8. Fresh(v) /\ Waits(v, o) /\ Alone(v, o) /\ Told(v)
  BY <1>6, <1>7 DEF Server, Agrees, Fresh, Waits, Alone, Told
<1>9. Blank(v)
  BY <1>3, <1>4, <1>5, <1>6 DEF Server, Agrees, Blank
<1>10. Slots(v)
  BY <1>5, <1>6, <1>7 DEF Server, Agrees, Slots
<1>11. Held(v) /\ Loose(v)
  BY <1>5, <1>6, <1>7 DEF Server, Agrees, Held, Loose
<1>12. Findable(v)
  <2>1. ASSUME ~v.stray, NEW q \in Ids, v.gatt.op[q].kind = "by_type",
               NEW k \in 1 .. Len(v.gatt.op[q].db_data)
        PROVE  v.gatt.op[q].db_data[k] \in v.db.alive
    <3>1. \A r \in Ids : w.gatt.op[r].kind = "by_type" => \A j \in 1 .. Len(w.gatt.op[r].db_data) :
             w.gatt.op[r].db_data[j] \in w.db.alive
      BY <1>6, <2>1 DEF Server, Agrees, Findable
    <3>2. CASE q = o
      <4>1. v.gatt.op[q].db_data = Tail(w.gatt.op[o].db_data)
        BY <1>3, <1>4, <1>5, <1>6, <3>2
      <4>2. /\ k + 1 \in 1 .. Len(w.gatt.op[o].db_data)
            /\ v.gatt.op[q].db_data[k] = w.gatt.op[o].db_data[k + 1]
        BY <1>2, <2>1, <4>1
      <4>3. w.gatt.op[o].db_data[k + 1] \in w.db.alive
        BY <1>7, <2>1, <3>1, <3>2, <4>2
      <4> QED
        BY <1>6, <4>2, <4>3
    <3>3. CASE q # o
      BY <1>4, <1>5, <1>6, <1>7, <2>1, <3>1, <3>3
    <3> QED
      BY <3>2, <3>3
  <2> QED
    BY <2>1 DEF Findable
<1> QED
  BY <1>6, <1>7, <1>8, <1>9, <1>10, <1>11, <1>12 DEF Server, Agrees, v, g, f, rest


\* What the func of what was taken does.
LEMMA CompletedIs ==
    ASSUME NEW w \in Worlds, NEW o \in Ids, NEW err \in BOOLEAN, NEW full \in BOOLEAN,
           Server(w, o)
    PROVE  LET x == Completed(w, o, err, full)
               op == w.gatt.op[o]
               rest == [op EXCEPT !.db_data = Tail(@)]
               v == [w EXCEPT !.gatt = [w.gatt EXCEPT !.op = [@ EXCEPT ![o] = rest]]]
           IN \/ x = OpDestroyed(w, o)
              \/ x = Answered(w, o)
              \/ x = Crashed(w) /\ w.stray
              \/ x = Asked(v, Head(op.db_data), SlotOf(op.kind), o) /\ ~err /\ ~full
                 /\ op.db_data # <<>>
<1> DEFINE x == Completed(w, o, err, full)
           op == w.gatt.op[o]
           rest == [op EXCEPT !.db_data = Tail(@)]
           v == [w EXCEPT !.gatt = [w.gatt EXCEPT !.op = [@ EXCEPT ![o] = rest]]]
<1>1. /\ op \in Ops /\ op.db_data \in Seq(Attrs) /\ op.server \in 0 .. MaxServers
      /\ op.kind \in Kinds
  BY WorldIs DEF Ops
<1>2. op.server # 0 => op.server = w.gatt.server \/ w.stray
  <2>1. SlotOf(op.kind) \in SlotNames /\ o # None
    BY PendingNames DEF SlotOf, SlotNames
  <2>2. op.kind = "none" => op.server = 0
    BY DEF Server, Agrees, Blank, NoOp
  <2>3. op.kind \in Slotted /\ op.server # 0 => op.server = w.gatt.server
    BY <2>1 DEF Server, Agrees, Held, Slots
  <2>4. op.kind \in Raw => op.server = w.gatt.server \/ w.stray
    BY DEF Server, Agrees, Loose
  <2> QED
    BY <1>1, <2>2, <2>3, <2>4 DEF Kinds
<1>3. op.kind = "by_type" /\ op.db_data # <<>> /\ Head(op.db_data) \notin w.db.alive
         => w.stray
  <2>1. op.db_data # <<>> => 1 \in 1 .. Len(op.db_data) /\ Head(op.db_data) = op.db_data[1]
    BY <1>1
  <2> QED
    BY <2>1 DEF Server, Agrees, Findable
<1>4. CASE op.server = 0
  <2>1. x = OpDestroyed(w, o)
    BY <1>4 DEF Completed
  <2> QED
    BY <2>1
<1>5. CASE op.server # 0 /\ op.server # w.gatt.server
  <2>1. x = Crashed(w)
    BY <1>5 DEF Completed
  <2> QED
    BY <1>2, <1>5, <2>1
<1>6. CASE op.server # 0 /\ op.server = w.gatt.server
  <2> DEFINE next == Asked(v, Head(op.db_data), SlotOf(op.kind), o)
             gone == Head(op.db_data) \notin w.db.alive
             over == err \/ full \/ op.db_data = <<>>
             kind == op.kind
  <2>1. x = IF kind = "cmd" THEN OpDestroyed(w, o)
            ELSE IF over THEN Answered(w, o)
            ELSE IF gone THEN IF kind = "by_type" THEN Crashed(w) ELSE Answered(w, o)
            ELSE next
    BY <1>6 DEF Completed
  <2>2. kind = "by_type" /\ ~over /\ gone => w.stray
    BY <1>3
  <2>3. over \in BOOLEAN /\ gone \in BOOLEAN
    OBVIOUS
  <2> HIDE DEF x, next, gone, over, kind
  <2>4. \/ x = OpDestroyed(w, o) \/ x = Answered(w, o)
        \/ x = Crashed(w) /\ w.stray
        \/ x = next /\ ~over
    BY <2>1, <2>2, <2>3
  <2> USE DEF x, next, over
  <2> QED
    BY <2>4
<1> QED
  BY <1>4, <1>5, <1>6

\* The fields of a world behind an op.
LEMMA EndedIs ==
    ASSUME NEW w \in Worlds, NEW o \in Ids, NEW x,
           x = OpDestroyed(w, o) \/ x = Answered(w, o)
    PROVE  /\ x \in Worlds /\ Ended(x, w, o) /\ x.loop = w.loop /\ x.db = w.db
           /\ x.inside = w.inside /\ x.crashed = w.crashed /\ x.done = w.done
           /\ x.answers = w.answers \/ x.answers = [w.answers EXCEPT ![o] = @ + 1]
           /\ x.stray = w.stray /\ x.prompt = w.prompt
<1>1. CASE x = OpDestroyed(w, o)
  BY <1>1, OpDestroyedIs, Zenon DEF Ended
<1>2. CASE x = Answered(w, o)
  BY <1>2, AnsweredIs, Zenon DEF Ended
<1> QED
  BY <1>1, <1>2

\* When the func of what was taken has run, the op is over, or it asks again,
\* or freed memory was used, which the owner brought about.
LEMMA CompletedKeeps ==
    ASSUME NEW w \in Worlds, NEW o \in Ids, NEW err \in BOOLEAN, NEW full \in BOOLEAN,
           Filled(w), ~w.crashed, Sound(w), Server(w, o), w.prompt => ~w.stray,
           w.gatt.op[o].kind # "none",
           err \/ full \/ w.db.next \in Ids,
           w.prompt => w.db.queued = {} /\ ~w.loop.returned
    PROVE  LET x == Completed(w, o, err, full)
           IN /\ Inv(x, 0) /\ x.prompt = w.prompt
              /\ x.loop.returned = w.loop.returned
              /\ x.loop.terminate = w.loop.terminate
              /\ x.db.alive = w.db.alive
              /\ x.inside = w.inside \/ x.inside \in Ids
              /\ err => x.inside = w.inside
<1> DEFINE x == Completed(w, o, err, full)
           op == w.gatt.op[o]
           slot == SlotOf(op.kind)
           rest == [op EXCEPT !.db_data = Tail(@)]
           v == [w EXCEPT !.gatt = [w.gatt EXCEPT !.op = [@ EXCEPT ![o] = rest]]]
<1>1. op \in Ops /\ op.db_data \in Seq(Attrs)
  BY WorldIs DEF Ops
<1>3. \/ x = OpDestroyed(w, o)
      \/ x = Answered(w, o)
      \/ x = Crashed(w) /\ w.stray
      \/ x = Asked(v, Head(op.db_data), slot, o) /\ ~err /\ ~full /\ op.db_data # <<>>
  BY CompletedIs
<1>4. ASSUME NEW y \in Worlds, Ended(y, w, o), y.loop = w.loop, y.db = w.db,
             y.inside = w.inside, y.crashed = w.crashed, y.done = w.done,
             y.stray = w.stray, y.prompt = w.prompt,
             y.answers = w.answers \/ y.answers = [w.answers EXCEPT ![o] = @ + 1]
      PROVE  /\ Inv(y, 0) /\ Server(y, 0) /\ ~y.crashed
  <2>1. Server(y, 0)
    BY <1>4, EndedServer
  <2>2. Sound(y) /\ Filled(y)
    BY <1>4, SoundDepends
  <2> QED
    BY <1>4, <2>1, <2>2 DEF Inv, Base
<1>5. CASE x = OpDestroyed(w, o) \/ x = Answered(w, o)
  <2> HIDE DEF x
  <2>1. /\ x \in Worlds /\ Ended(x, w, o) /\ x.loop = w.loop /\ x.db = w.db
        /\ x.inside = w.inside /\ x.crashed = w.crashed /\ x.done = w.done
        /\ x.answers = w.answers \/ x.answers = [w.answers EXCEPT ![o] = @ + 1]
        /\ x.stray = w.stray /\ x.prompt = w.prompt
    BY <1>5, EndedIs
  <2>2. Inv(x, 0) /\ Server(x, 0) /\ ~x.crashed
    BY <1>4, <2>1
  <2> QED
    BY <2>1, <2>2 DEF x
<1>7. CASE x = Crashed(w) /\ w.stray
  <2> HIDE DEF x
  <2>1. /\ x \in Worlds /\ x.crashed /\ x.db = w.db /\ x.stray = w.stray
        /\ x.prompt = w.prompt /\ x.loop = w.loop /\ x.inside = w.inside
    BY <1>7, CrashedIs DEF Crashed, Worlds
  <2>2. Filled(x)
    BY <2>1 DEF Filled
  <2> QED
    BY <1>7, <2>1, <2>2 DEF Inv, Base, x
<1>8. CASE x = Asked(v, Head(op.db_data), slot, o) /\ ~err /\ ~full /\ op.db_data # <<>>
  <2>1. /\ v \in Worlds /\ Server(v, o) /\ v.gatt.op[o].kind # "none"
        /\ v.loop = w.loop /\ v.db = w.db /\ v.inside = w.inside
        /\ v.done = w.done /\ v.stray = w.stray /\ v.prompt = w.prompt
        /\ v.crashed = w.crashed
    BY <1>8, RestServer
  <2>2. Head(op.db_data) \in Attrs /\ slot \in SlotNames /\ w.db.next \in Ids
    BY <1>1, <1>8 DEF SlotOf, SlotNames
  <2> DEFINE head == Head(op.db_data)
  <2> HIDE DEF x, v, head, slot
  <2>3. Sound(v) /\ Filled(v) /\ Later(v) /\ Agrees(v, o) /\ v.db.next \notin v.db.queued
    <3>1. Sound(v) /\ Filled(v)
      BY <2>1, SoundDepends
    <3>2. Fresh(v) /\ Agrees(v, o)
      BY <2>1 DEF Server
    <3>3. \A q \in Ids : q > v.db.next => q >= v.db.next
      BY <2>1, WorldIs DEF Ids
    <3>4. v.db.next \in Ids /\ v.db.next >= v.db.next
      BY <2>1, <2>2 DEF Ids
    <3> QED
      BY <3>1, <3>2, <3>3, <3>4 DEF Fresh, Later
  <2>4. Sound(Asked(v, head, slot, o))
    BY <2>1, <2>2, <2>3, AskedSound DEF head
  <2>5. Filled(Asked(v, head, slot, o)) /\ Server(Asked(v, head, slot, o), 0)
    BY <2>1, <2>2, <2>3, AskedServer DEF head
  <2>6. LET y == Asked(v, head, slot, o)
        IN /\ y \in Worlds /\ y.loop = TimerAdded(v.loop, v.db.next)
           /\ y.db.alive = v.db.alive /\ y.inside = v.db.next
           /\ y.crashed = v.crashed /\ y.stray = v.stray /\ y.prompt = v.prompt
    <3>1. v \in Worlds /\ head \in Attrs /\ slot \in SlotNames /\ v.db.next \in Ids
      BY <2>1, <2>2 DEF head
    <3> QED
      BY <3>1, AskedChanges
  <2>7. x = Asked(v, head, slot, o)
    BY <1>8 DEF head
  <2>8. /\ TimerAdded(w.loop, w.db.next).returned = w.loop.returned
        /\ TimerAdded(w.loop, w.db.next).terminate = w.loop.terminate
    BY <2>2, TimerAddedIs, WorldIs
  <2> QED
    BY <1>8, <2>1, <2>2, <2>4, <2>5, <2>6, <2>7, <2>8 DEF Inv, Base, x
<1> QED
  BY <1>3, <1>5, <1>7, <1>8


\* An answer, or the end of the attribute, of what is queued.
LEMMA ResultKeeps ==
    ASSUME NEW w, Inv(w, 0), ~w.crashed, NEW p \in w.db.queued,
           NEW err \in BOOLEAN, NEW full \in BOOLEAN,
           err \/ full \/ w.db.next \in Ids
    PROVE  LET x == Result(Dequeued(w, p), p, err, full)
           IN /\ Inv(x, 0) /\ x.prompt = w.prompt
              /\ x.loop.returned = w.loop.returned
              /\ x.loop.terminate = w.loop.terminate
              /\ x.db.alive = w.db.alive
              /\ x.inside = w.inside \/ x.inside \in Ids
              /\ err => x.inside = w.inside
<1> DEFINE y == Taken(Dequeued(w, p), p)
           o == w.db.pending[p].op
           id == w.db.pending[p].timeout_id
<1>1. /\ w \in Worlds /\ Filled(w) /\ Base(w) /\ Sound(w) /\ Server(w, 0)
      /\ Fresh(w) /\ w.crashed \in BOOLEAN
  BY WorldIs DEF Inv, Base, Server
<1>2. p \in Ids
  BY <1>1, WorldIs
<1>3. Dequeued(w, p).db.pending[p].op = o
  BY <1>1, <1>2, DequeuedIs
<1>4. Result(Dequeued(w, p), p, err, full) = Completed(y, o, err, full)
  BY <1>3, ResultIs
<1>5. /\ Takes(y, w, p) /\ y.loop = TimerRemoved(w.loop, id)
      /\ y.stray <=> (w.stray \/ (id # 0 /\ FreesEvent(w.loop, id)))
  BY <1>1, <1>2, TakenIs
<1> HIDE DEF y
<1>6. /\ y \in Worlds
      /\ y.db.pending = [w.db.pending EXCEPT ![p] = Unused]
      /\ y.db.queued = w.db.queued \ {p}
      /\ y.db.next = w.db.next /\ y.db.alive = w.db.alive
      /\ y.done = [w.done EXCEPT ![p] = @ + 1]
      /\ y.inside = w.inside /\ y.crashed = w.crashed /\ y.prompt = w.prompt
      /\ y.loop.terminate = w.loop.terminate /\ y.loop.returned = w.loop.returned
  BY <1>5 DEF Takes
<1>7. Sound(y) /\ (y.prompt => ~y.stray) /\ (w.stray => y.stray)
  BY <1>1, <1>5, <1>6, TakenSound
<1>8. Filled(y) /\ Server(y, o) /\ o \in Ids /\ y.gatt.op[o].kind # "none"
  BY <1>1, <1>5, <1>7, TakenServer
<1>9. y.prompt => y.db.queued = {} /\ ~y.loop.returned
  BY <1>1, <1>6 DEF Sound, Prompt
<1> HIDE DEF o, id
<1>10. LET x == Completed(y, o, err, full)
       IN /\ Inv(x, 0) /\ x.prompt = y.prompt
          /\ x.loop.returned = y.loop.returned
          /\ x.loop.terminate = y.loop.terminate
          /\ x.db.alive = y.db.alive
          /\ x.inside = y.inside \/ x.inside \in Ids
          /\ err => x.inside = y.inside
  BY <1>6, <1>7, <1>8, <1>9, CompletedKeeps
<1> QED
  BY <1>4, <1>6, <1>10

\* A read or write whose timer expires: its func runs, then the timer goes,
\* unless the func used freed memory.
LEMMA ExpireKeeps ==
    ASSUME NEW w, Inv(w, 0), ~w.crashed, NEW n \in Numbers, w.loop.list[n] \in Ids,
           ~w.loop.returned, ~w.prompt,
           \A k \in Turns(w.loop) : w.loop.batch[k].fd # n
    PROVE  LET p == w.loop.list[n]
               y == Result(TimerForgotten(Dequeued(w, p), p), p, TRUE, FALSE)
           IN \/ ~y.crashed /\ y.loop.list[n] = p
                 /\ Inv([y EXCEPT !.loop = Removed(@, n)], 0)
              \/ y.crashed /\ Inv(Crashed(y), 0)
<1> DEFINE p == w.loop.list[n]
           u == TimerForgotten(Dequeued(w, p), p)
           t == Taken(u, p)
           o == w.db.pending[p].op
           y == Completed(t, o, TRUE, FALSE)
           l == Removed(w.loop, n)
           z == [y EXCEPT !.loop = l]
           tz == [t EXCEPT !.loop = l]
<1>1. /\ w \in Worlds /\ Filled(w) /\ Base(w) /\ Sound(w) /\ Server(w, 0)
      /\ Fresh(w) /\ w.crashed \in BOOLEAN
  BY WorldIs DEF Inv, Base, Server
<1>2. p \in Ids /\ p \in w.db.queued /\ w.db.pending[p].timeout_id = n /\ n # 0
  BY <1>1 DEF Sound, Timers
<1>3. /\ Takes(t, w, p) /\ t.loop = w.loop /\ (t.stray <=> w.stray)
      /\ u.db.pending[p].op = o
  BY <1>1, <1>2, ExpiredIs
<1>4. Result(u, p, TRUE, FALSE) = y
  BY <1>3, ResultIs
<1> HIDE DEF t, u, p
<1>5. /\ t \in Worlds
      /\ t.db.pending = [w.db.pending EXCEPT ![p] = Unused]
      /\ t.db.queued = w.db.queued \ {p}
      /\ t.db.next = w.db.next /\ t.db.alive = w.db.alive
      /\ t.done = [w.done EXCEPT ![p] = @ + 1]
      /\ t.inside = w.inside /\ t.crashed = w.crashed /\ t.prompt = w.prompt
      /\ t.gatt = w.gatt /\ t.answers = w.answers
  BY <1>3 DEF Takes
<1>6. l \in Loops /\ l.batch = w.loop.batch
  BY <1>1, RemovedIs, RemovedQuietly, WorldIs
<1>7. l = TimerRemoved(w.loop, n) /\ ~FreesEvent(w.loop, n)
  BY <1>2, <1>6 DEF TimerRemoved, FreesEvent
<1> HIDE DEF l
<1>8. /\ tz \in Worlds /\ tz.loop = l /\ tz.db = t.db /\ tz.done = t.done
      /\ tz.inside = t.inside /\ tz.prompt = t.prompt /\ tz.stray = t.stray
  BY <1>5, <1>6 DEF Worlds
<1> HIDE DEF tz
<1>9. Sound(tz)
  BY <1>1, <1>2, <1>3, <1>5, <1>7, <1>8, TakenSound
<1>10. Filled(t) /\ Server(t, o) /\ o \in Ids /\ t.gatt.op[o].kind # "none"
  BY <1>1, <1>2, <1>3, TakenServer
<1> HIDE DEF o
<1>11. \/ y = OpDestroyed(t, o) \/ y = Answered(t, o)
       \/ y = Crashed(t) /\ t.stray
  BY <1>5, <1>10, CompletedIs
<1>12. CASE y = Crashed(t) /\ t.stray
  <2> HIDE DEF y
  <2>1. /\ y \in Worlds /\ y.crashed /\ y.db = t.db /\ y.stray = t.stray
        /\ y.prompt = t.prompt
    BY <1>5, <1>12, CrashedIs
  <2> DEFINE c == Crashed(y)
  <2>2. /\ c \in Worlds /\ c.crashed /\ c.db = y.db /\ c.stray = y.stray
        /\ c.prompt = y.prompt
    BY <2>1, CrashedIs
  <2> HIDE DEF c
  <2>3. Filled(c)
    BY <1>10, <2>1, <2>2 DEF Filled
  <2>4. Inv(c, 0)
    BY <1>5, <1>12, <2>1, <2>2, <2>3 DEF Inv, Base
  <2> QED
    BY <1>4, <2>1, <2>4 DEF c, p, u
<1>13. CASE y = OpDestroyed(t, o) \/ y = Answered(t, o)
  <2> HIDE DEF y
  <2>1. /\ y \in Worlds /\ Ended(y, t, o) /\ y.loop = t.loop /\ y.db = t.db
        /\ y.inside = t.inside /\ y.crashed = t.crashed /\ y.done = t.done
        /\ y.answers = t.answers \/ y.answers = [t.answers EXCEPT ![o] = @ + 1]
        /\ y.stray = t.stray /\ y.prompt = t.prompt
    BY <1>5, <1>10, <1>13, EndedIs
  <2>2. /\ z \in Worlds /\ z.loop = l /\ z.db = y.db /\ z.gatt = y.gatt
        /\ z.inside = y.inside /\ z.crashed = y.crashed /\ z.done = y.done
        /\ z.answers = y.answers /\ z.stray = y.stray /\ z.prompt = y.prompt
    BY <1>6, <2>1 DEF Worlds
  <2> HIDE DEF z
  <2>3. Server(z, 0)
    <3>1. Ended(z, t, o)
      BY <2>1, <2>2 DEF Ended
    <3> QED
      BY <1>5, <1>10, <2>1, <2>2, <3>1, EndedServer
  <2>4. Sound(z) /\ Filled(z)
    <3>1. /\ z.loop = tz.loop /\ z.db = tz.db /\ z.inside = tz.inside /\ z.done = tz.done
          /\ z.stray = tz.stray /\ z.prompt = tz.prompt
      BY <1>8, <2>1, <2>2
    <3>2. Sound(z)
      BY <1>9, <3>1, SoundDepends
    <3> QED
      BY <1>10, <2>1, <2>2, <3>2 DEF Filled
  <2>5. Inv(z, 0)
    BY <1>5, <2>1, <2>2, <2>3, <2>4 DEF Inv, Base
  <2>6. z = [y EXCEPT !.loop = Removed(@, n)] /\ y.loop.list[n] = p /\ ~y.crashed
    BY <1>3, <1>5, <2>1 DEF z, l, p
  <2> QED
    BY <1>4, <2>5, <2>6 DEF p, u
<1> QED
  BY <1>11, <1>12, <1>13


----------------------------------------------------------------------------
(* The end of an attribute *)

\* v comes from w when what is queued is cancelled.
Keeps(v, w) ==
    /\ Inv(v, 0) /\ v.prompt = w.prompt /\ v.inside = w.inside
    /\ v.db.alive = w.db.alive /\ v.loop.returned = w.loop.returned
    /\ w.db.queued = {} => v = w

\* One that is queued is cancelled, or it is of another attribute or kind.
LEMMA CancelledKeeps ==
    ASSUME NEW w, NEW v, Keeps(v, w), NEW a, NEW kind, NEW p
    PROVE  Keeps(Cancelled(v, a, kind, p), w)
<1> DEFINE x == Cancelled(v, a, kind, p)
<1>1. CASE /\ ~v.crashed /\ p \in v.db.queued
           /\ v.db.pending[p].attrib = a /\ v.db.pending[p].kind = kind
  <2>1. x = Result(Dequeued(v, p), p, TRUE, FALSE)
    BY <1>1 DEF Cancelled
  <2>2. Inv(v, 0) /\ ~v.crashed /\ p \in v.db.queued
    BY <1>1 DEF Keeps
  <2>3. LET y == Result(Dequeued(v, p), p, TRUE, FALSE)
        IN /\ Inv(y, 0) /\ y.prompt = v.prompt
           /\ y.loop.returned = v.loop.returned
           /\ y.db.alive = v.db.alive /\ y.inside = v.inside
    BY <2>2, ResultKeeps
  <2>4. w.db.queued # {}
    BY <1>1 DEF Keeps
  <2> QED
    BY <2>1, <2>3, <2>4 DEF Keeps
<1>2. CASE ~(/\ ~v.crashed /\ p \in v.db.queued
             /\ v.db.pending[p].attrib = a /\ v.db.pending[p].kind = kind)
  <2>1. x = v
    BY <1>2 DEF Cancelled
  <2> QED
    BY <2>1
<1> QED
  BY <1>1, <1>2

\* The worlds as the queue is gone through, one number after the other.
Through(f, n, w, a, kind) ==
    f = [k \in 0 .. n |-> IF k = 0 THEN w ELSE Cancelled(f[k - 1], a, kind, k)]

\* There is such a sequence of worlds.
LEMMA ThroughExists ==
    ASSUME NEW w, NEW a, NEW kind
    PROVE  \E f : Through(f, MaxPending, w, a, kind)
<1> DEFINE T == {n \in 0 .. MaxPending : \E f : Through(f, n, w, a, kind)}
<1>1. 0 \in T
  <2> DEFINE f == [k \in 0 .. 0 |-> w]
  <2>1. Through(f, 0, w, a, kind)
    BY DEF Through
  <2> HIDE DEF f
  <2> QED
    BY <2>1, PendingConstants
<1>2. ASSUME NEW n \in 0 .. MaxPending - 1, n \in T PROVE n + 1 \in T
  <2>1. PICK f : Through(f, n, w, a, kind)
    BY <1>2
  <2>2. n \in Nat /\ n + 1 \in 0 .. MaxPending /\ n + 1 # 0
    BY PendingConstants
  <2> DEFINE g == [k \in 0 .. n + 1 |-> IF k <= n THEN f[k] ELSE Cancelled(f[n], a, kind, n + 1)]
  <2>3. \A k \in 0 .. n : f[k] = IF k = 0 THEN w ELSE Cancelled(f[k - 1], a, kind, k)
    BY <2>1 DEF Through
  <2>4. \A k \in 0 .. n : g[k] = f[k]
    BY <2>2
  <2>5. g[n + 1] = Cancelled(f[n], a, kind, n + 1) /\ g[n] = f[n]
    BY <2>2
  <2>6. DOMAIN g = 0 .. n + 1
    OBVIOUS
  <2>7. g = [k \in 0 .. n + 1 |-> g[k]]
    OBVIOUS
  <2> HIDE DEF g
  <2>8. ASSUME NEW k \in 0 .. n + 1
        PROVE  g[k] = IF k = 0 THEN w ELSE Cancelled(g[k - 1], a, kind, k)
    <3>1. CASE k = n + 1
      BY <2>2, <2>5, <3>1
    <3>2. CASE k \in 0 .. n /\ k # 0
      <4>1. k - 1 \in 0 .. n
        BY <2>2, <3>2
      <4> QED
        BY <2>3, <2>4, <3>2, <4>1
    <3>3. CASE k = 0
      BY <2>2, <2>3, <2>4, <3>3
    <3> QED
      BY <2>2, <3>1, <3>2, <3>3
  <2>9. Through(g, n + 1, w, a, kind)
    BY <2>7, <2>8 DEF Through
  <2> QED
    BY <2>2, <2>9
<1> HIDE DEF T
<1>3. 0 .. MaxPending \subseteq T
  BY <1>1, <1>2, PendingConstants, Counting
<1>4. MaxPending \in T
  BY <1>3, PendingConstants
<1> QED
  BY <1>4 DEF T

\* All that is queued of a kind is cancelled.
LEMMA AllCancelledKeeps ==
    ASSUME NEW w, NEW v, Keeps(v, w), NEW a, NEW kind
    PROVE  Keeps(AllCancelled(v, a, kind), w)
<1> DEFINE f == CHOOSE g : Through(g, MaxPending, v, a, kind)
<1>1. Through(f, MaxPending, v, a, kind)
  BY ThroughExists
<1>2. AllCancelled(v, a, kind) = f[MaxPending]
  BY DEF AllCancelled, Through
<1> HIDE DEF f
<1> DEFINE T == {n \in 0 .. MaxPending : Keeps(f[n], w)}
<1>3. \A k \in 0 .. MaxPending : f[k] = IF k = 0 THEN v ELSE Cancelled(f[k - 1], a, kind, k)
  BY <1>1 DEF Through
<1>4. 0 \in T
  BY <1>3, PendingConstants
<1>5. ASSUME NEW n \in 0 .. MaxPending - 1, n \in T PROVE n + 1 \in T
  <2>1. n + 1 \in 0 .. MaxPending /\ n + 1 # 0 /\ (n + 1) - 1 = n
    BY PendingConstants
  <2>2. f[n + 1] = Cancelled(f[n], a, kind, n + 1)
    BY <1>3, <2>1
  <2>3. Keeps(f[n], w)
    BY <1>5
  <2>4. Keeps(f[n + 1], w)
    BY <2>2, <2>3, CancelledKeeps
  <2> QED
    BY <2>1, <2>4
<1> HIDE DEF T
<1>6. 0 .. MaxPending \subseteq T
  BY <1>4, <1>5, PendingConstants, Counting
<1>7. MaxPending \in T
  BY <1>6, PendingConstants
<1> QED
  BY <1>2, <1>7 DEF T

\* An attribute goes: what is queued for it is cancelled first.
LEMMA DestroyedKeeps ==
    ASSUME NEW w, Inv(w, 0), ~w.crashed, NEW a, w.inside # None,
           NEW pr \in BOOLEAN, pr <=> (w.prompt /\ w.db.queued = {})
    PROVE  Inv([Destroyed(w, a) EXCEPT !.prompt = pr], 0)
<1> DEFINE v == AllCancelled(AllCancelled(w, a, "read"), a, "write")
           d == [v.db EXCEPT !.alive = @ \ {a}]
           held == \E o \in Ids : /\ v.gatt.op[o].kind = "by_type"
                                 /\ a \in ToSet(v.gatt.op[o].db_data)
           s == v.stray \/ held
           y == [v EXCEPT !.db = d, !.stray = s]
           x == [y EXCEPT !.prompt = pr]
<1>1. Keeps(w, w)
  BY DEF Keeps
<1>2. Keeps(v, w)
  BY <1>1, AllCancelledKeeps
<1>3. Destroyed(w, a) = y
  BY DEF Destroyed
<1> HIDE DEF v
<1>4. /\ v \in Worlds /\ v.db \in Dbs /\ v.db.alive \subseteq Attrs
      /\ Filled(v) /\ (v.crashed => v.stray)
      /\ ~v.crashed => Sound(v) /\ Server(v, 0)
      /\ (v.prompt => ~v.stray) /\ v.prompt = w.prompt /\ v.inside # None
      /\ w.db.queued = {} => v = w
  BY <1>2, WorldIs DEF Keeps, Inv, Base
<1>5. /\ d \in Dbs /\ d.pending = v.db.pending /\ d.queued = v.db.queued
      /\ d.next = v.db.next /\ d.alive = v.db.alive \ {a}
  BY <1>4 DEF Dbs
<1>6. /\ s \in BOOLEAN /\ (v.stray => s)
      /\ s => v.stray \/ \E o \in Ids : a \in ToSet(v.gatt.op[o].db_data)
      /\ ~s => \A o \in Ids : v.gatt.op[o].kind = "by_type" =>
                   a \notin ToSet(v.gatt.op[o].db_data)
  OBVIOUS
<1> HIDE DEF d, s
<1>7. y \in Worlds /\ x \in Worlds
  BY <1>4, <1>5, <1>6 DEF Worlds
<1>8. /\ x.db = d /\ x.stray = s /\ x.prompt = pr /\ x.loop = v.loop
      /\ x.gatt = v.gatt /\ x.inside = v.inside /\ x.crashed = v.crashed
      /\ x.done = v.done /\ x.answers = v.answers
  BY <1>4, <1>5, <1>6, <1>7 DEF Worlds
<1> HIDE DEF x, y
<1>9. ASSUME pr PROVE ~s /\ v.prompt
  <2>1. v = w /\ v.prompt /\ ~v.stray /\ v.db.queued = {} /\ ~v.crashed
    BY <1>4, <1>9
  <2>2. ASSUME NEW o \in Ids PROVE a \notin ToSet(v.gatt.op[o].db_data)
    <3>1. v.gatt.op[o].kind = "none"
      <4>1. o # 0
        BY DEF Ids
      <4> QED
        BY <1>4, <2>1, <4>1 DEF Server, Agrees, Waits
    <3>2. v.gatt.op[o].db_data = <<>>
      BY <1>4, <2>1, <3>1 DEF Server, Agrees, Blank, NoOp
    <3> QED
      BY <3>2 DEF ToSet
  <2> QED
    BY <1>6, <2>1, <2>2
<1>10. Filled(x)
  BY <1>4, <1>5, <1>8 DEF Filled
<1>11. ASSUME ~v.crashed PROVE Sound(x)
  <2>1. Counted(x) /\ Timers(x)
    BY <1>4, <1>5, <1>8, <1>11 DEF Sound, Counted, Timers
  <2>2. Rounds(x)
    BY <1>4, <1>6, <1>8, <1>11 DEF Sound, Rounds
  <2>3. Prompt(x)
    BY <1>4, <1>5, <1>8, <1>9, <1>11 DEF Sound, Prompt
  <2> QED
    BY <2>1, <2>2, <2>3 DEF Sound
<1>12. ASSUME ~v.crashed PROVE Server(x, 0)
  <2>1. /\ Fresh(x) /\ Blank(x) /\ Slots(x) /\ Held(x) /\ Loose(x)
        /\ Waits(x, 0) /\ Alone(x, 0) /\ Told(x)
    BY <1>4, <1>5, <1>6, <1>8, <1>12
       DEF Server, Agrees, Fresh, Blank, Slots, Held, Loose, Waits, Alone, Told
  <2>2. Findable(x)
    <3>1. ASSUME ~s, NEW q \in Ids, v.gatt.op[q].kind = "by_type",
                 NEW k \in 1 .. Len(v.gatt.op[q].db_data)
          PROVE  v.gatt.op[q].db_data[k] \in d.alive
      <4>1. v.gatt.op[q].db_data[k] \in v.db.alive
        BY <1>4, <1>6, <1>12, <3>1 DEF Server, Agrees, Findable
      <4>2. v.gatt.op[q].db_data[k] # a
        <5>1. DOMAIN v.gatt.op[q].db_data = 1 .. Len(v.gatt.op[q].db_data)
          <6>1. v.gatt.op \in [Ids -> Ops]
            BY <1>4, WorldIs
          <6>2. v.gatt.op[q].db_data \in Seq(Attrs)
            BY <6>1 DEF Ops
          <6> QED
            BY <6>2
        <5>2. a \notin ToSet(v.gatt.op[q].db_data)
          BY <1>6, <3>1
        <5> QED
          BY <5>1, <5>2, <3>1 DEF ToSet
      <4> QED
        BY <1>5, <4>1, <4>2
    <3> QED
      BY <1>8, <3>1 DEF Findable
  <2> QED
    BY <2>1, <2>2 DEF Server, Agrees
<1>13. Inv(x, 0)
  <2>1. Base(x)
    BY <1>4, <1>6, <1>7, <1>8, <1>9, <1>10 DEF Base
  <2>2. ~x.crashed => Sound(x) /\ Server(x, 0)
    BY <1>8, <1>11, <1>12
  <2> QED
    BY <2>1, <2>2 DEF Inv
<1> QED
  BY <1>3, <1>13 DEF x


----------------------------------------------------------------------------
(* The steps *)

\* A world that the variables become.
LEMMA BecomesIs ==
    ASSUME NEW w \in Worlds, Becomes(w), Inv(w, 0)
    PROVE  PendingInv'
<1>1. World' = w
  <2>1. w = [loop |-> w.loop, db |-> w.db, gatt |-> w.gatt, inside |-> w.inside,
             crashed |-> w.crashed, done |-> w.done, answers |-> w.answers,
             stray |-> w.stray, prompt |-> w.prompt]
    BY DEF Worlds
  <2>2. /\ loop' = w.loop /\ db' = w.db /\ gatt' = w.gatt /\ inside' = w.inside
        /\ crashed' = w.crashed /\ done' = w.done /\ answers' = w.answers
        /\ stray' = w.stray /\ prompt' = w.prompt
    BY DEF Becomes
  <2> QED
    BY <2>1, <2>2 DEF World
<1> QED
  BY <1>1 DEF PendingInv

\* What World stands for.
LEMMA WorldFields ==
    /\ World.loop = loop /\ World.db = db /\ World.gatt = gatt
    /\ World.inside = inside /\ World.crashed = crashed /\ World.done = done
    /\ World.answers = answers /\ World.stray = stray /\ World.prompt = prompt
BY DEF World


\* The invariant taken apart, where no freed memory was used.
LEMMA InvIs ==
    ASSUME PendingInv, ~crashed
    PROVE  /\ World \in Worlds /\ Inv(World, 0) /\ ~World.crashed /\ Base(World)
           /\ Filled(World) /\ Sound(World) /\ Server(World, 0)
           /\ (prompt => ~stray) /\ crashed \in BOOLEAN
           /\ loop \in Loops /\ db \in Dbs /\ gatt \in Gatts
<1>1. Inv(World, 0) /\ World.crashed = crashed
  BY WorldFields DEF PendingInv
<1>2. World \in Worlds
  BY <1>1 DEF Inv, Base
<1>3. World.loop \in Loops /\ World.db \in Dbs /\ World.gatt \in Gatts
      /\ World.crashed \in BOOLEAN
  BY <1>2, WorldIs
<1> QED
  BY <1>1, <1>2, <1>3, WorldFields DEF Inv, Base

\* An event is taken from the round.
LEMMA OverKeeps ==
    ASSUME PendingInv, ~crashed, loop.batch # <<>>
    PROVE  /\ Inv(Over, 0) /\ Over \in Worlds /\ ~Over.crashed
           /\ Over.loop = NextEvent(loop) /\ Over.loop.list = loop.list
           /\ Over.loop.returned = loop.returned /\ Over.db = db /\ Over.gatt = gatt
           /\ Over.inside = inside /\ Over.stray = stray /\ Over.prompt = prompt
           /\ ~loop.returned /\ loop.batch[1].fd \in Numbers
           /\ \A k \in Turns(Over.loop) : Over.loop.batch[k].fd # loop.batch[1].fd
           /\ loop.batch[1].wild => stray
           /\ Sound(Over) /\ Server(Over, 0) /\ Filled(Over)
<1>1. /\ World \in Worlds /\ Filled(World) /\ Sound(World) /\ Server(World, 0)
      /\ (prompt => ~stray) /\ loop \in Loops
  BY InvIs
<1> DEFINE l == NextEvent(loop)
<1>2. /\ l \in Loops /\ 1 \in Turns(loop) /\ l.list = loop.list
      /\ l.terminate = loop.terminate /\ l.returned = loop.returned
      /\ \A k \in Turns(l) : k \in Nat /\ k + 1 \in Turns(loop) /\ k + 1 # 1
                             /\ l.batch[k] = loop.batch[k + 1]
  BY <1>1, NextEventIs
<1>3. Over = [World EXCEPT !.loop = l]
  BY WorldFields DEF Over
<1> HIDE DEF l
<1>4. /\ Over \in Worlds /\ Over.loop = l /\ Over.db = db /\ Over.gatt = gatt
      /\ Over.inside = inside /\ Over.stray = stray /\ Over.prompt = prompt
      /\ Over.crashed = crashed /\ Over.done = done /\ Over.answers = answers
  BY <1>1, <1>2, <1>3, WorldFields DEF Worlds
<1>5. /\ \A i, j \in Turns(loop) : loop.batch[i].fd = loop.batch[j].fd => i = j
      /\ ~stray => \A i \in Turns(loop) : ~loop.batch[i].wild
      /\ loop.returned => loop.batch = <<>>
  BY <1>1, WorldFields DEF Sound, Rounds
<1>6. Counted(Over) /\ Timers(Over) /\ Filled(Over)
  BY <1>1, <1>2, <1>4, WorldFields DEF Sound, Counted, Timers, Filled
<1>7. Rounds(Over)
  <2>1. \A i, j \in Turns(l) : l.batch[i].fd = l.batch[j].fd => i = j
    <3>1. ASSUME NEW i \in Turns(l), NEW j \in Turns(l), l.batch[i].fd = l.batch[j].fd
          PROVE  i = j
      <4>1. i + 1 = j + 1
        BY <1>2, <1>5, <3>1
      <4> QED
        BY <1>2, <4>1
    <3> QED
      BY <3>1
  <2>2. ~stray => \A i \in Turns(l) : ~l.batch[i].wild
    BY <1>2, <1>5
  <2> QED
    BY <1>2, <1>4, <1>5, <2>1, <2>2 DEF Rounds
<1>8. Prompt(Over)
  <2>1. prompt => \A k \in Turns(loop) : loop.list[loop.batch[k].fd] \in {Io, Owner}
    BY <1>1, WorldFields DEF Sound, Prompt
  <2>2. prompt => \A k \in Turns(l) : l.list[l.batch[k].fd] \in {Io, Owner}
    BY <1>2, <2>1
  <2>3. prompt => /\ \A q, r \in db.queued : q = r
                  /\ inside = None => db.queued = {}
    BY <1>1, WorldFields DEF Sound, Prompt
  <2>4. ~loop.returned
    BY <1>5
  <2> QED
    BY <1>2, <1>4, <2>2, <2>3, <2>4 DEF Prompt
<1>9. Server(Over, 0)
  BY <1>1, <1>4, WorldFields
     DEF Server, Agrees, Fresh, Blank, Slots, Held, Loose, Waits, Alone, Told, Findable
<1>10. Sound(Over)
  BY <1>6, <1>7, <1>8 DEF Sound
<1>11. loop.batch[1].fd \in Numbers
  BY <1>1, <1>2, FdIs
<1>12. \A k \in Turns(l) : l.batch[k].fd # loop.batch[1].fd
  BY <1>2, <1>5
<1> QED
  BY <1>1, <1>2, <1>4, <1>5, <1>6, <1>9, <1>10, <1>11, <1>12 DEF Inv, Base, l

\* epoll_wait returns a round.
LEMMA WaitKeeps ==
    ASSUME PendingInv, Wait
    PROVE  PendingInv'
<1>1. ~crashed /\ inside = None /\ loop.batch = <<>> /\ ~loop.terminate
  BY DEF Wait, Waiting
<1>2. /\ World \in Worlds /\ Filled(World) /\ Sound(World) /\ Server(World, 0)
      /\ (prompt => ~stray) /\ loop \in Loops
  BY <1>1, InvIs
<1> DEFINE ready == {n \in Numbers : loop.list[n] # Free}
<1>3. PICK b \in Batches(ready) : loop' = [loop EXCEPT !.batch = b]
  BY DEF Wait
<1>4. PICK k \in 1 .. MaxEvents : b \in [1 .. k -> [fd : ready, wild : {FALSE}]]
  BY DEF Batches
<1>5. /\ k \in Nat /\ b \in Seq(Events) /\ DOMAIN b = 1 .. k /\ Len(b) = k
      /\ \A i \in 1 .. k : b[i].fd \in ready /\ ~b[i].wild
  <2>1. k \in Nat
    BY LoopConstants
  <2>2. [fd : ready, wild : {FALSE}] \subseteq Events
    BY DEF Events
  <2>3. b \in [1 .. k -> Events]
    BY <1>4, <2>2
  <2>4. b \in Seq(Events) /\ DOMAIN b = 1 .. k
    BY <2>1, <2>3, SeqDef
  <2>5. Len(b) = k
    BY <2>1, <2>4, LenProperties
  <2>6. ASSUME NEW i \in 1 .. k PROVE b[i].fd \in ready /\ ~b[i].wild
    <3>1. b[i] \in [fd : ready, wild : {FALSE}]
      BY <1>4, <2>6
    <3> HIDE DEF ready
    <3> QED
      BY <3>1
  <2> QED
    BY <2>1, <2>4, <2>5, <2>6
<1>6. \A i, j \in 1 .. k : b[i].fd = b[j].fd => i = j
  BY <1>5 DEF Batches
<1> DEFINE l == [loop EXCEPT !.batch = b]
           x == [World EXCEPT !.loop = l]
<1>7. /\ l \in Loops /\ l.batch = b /\ l.list = loop.list
      /\ l.terminate = loop.terminate /\ l.returned = loop.returned
  BY <1>2, <1>5 DEF Loops
<1> HIDE DEF l
<1>8. /\ x \in Worlds /\ x.loop = l /\ x.db = db /\ x.gatt = gatt
      /\ x.inside = inside /\ x.stray = stray /\ x.prompt = prompt
      /\ x.crashed = crashed /\ x.done = done /\ x.answers = answers
  BY <1>2, <1>7, WorldFields DEF Worlds
<1> HIDE DEF x
<1>9. Turns(l) = 1 .. k
  BY <1>5, <1>7 DEF Turns
<1>10. ~loop.returned
  BY <1>1, <1>2, WorldFields DEF Sound, Rounds
<1>11. Counted(x) /\ Timers(x) /\ Filled(x)
  BY <1>2, <1>7, <1>8, WorldFields DEF Sound, Counted, Timers, Filled
<1>12. Rounds(x)
  BY <1>5, <1>6, <1>7, <1>8, <1>9, <1>10 DEF Rounds
<1>13. Prompt(x)
  <2>1. ASSUME prompt PROVE db.queued = {}
    BY <1>1, <1>2, <2>1, WorldFields DEF Sound, Prompt
  <2>2. ASSUME prompt, NEW i \in 1 .. k PROVE loop.list[b[i].fd] \in {Io, Owner}
    <3>1. b[i].fd \in Numbers /\ loop.list[b[i].fd] # Free
      BY <1>5, <2>2
    <3>2. loop.list[b[i].fd] \in Owners
      BY <1>2, <3>1 DEF Loops
    <3>3. loop.list[b[i].fd] \notin Ids
      BY <1>2, <1>10, <2>1, <2>2, <3>1, WorldFields DEF Sound, Timers
    <3> QED
      BY <3>1, <3>2, <3>3 DEF Owners
  <2> QED
    BY <1>7, <1>8, <1>9, <1>10, <2>1, <2>2 DEF Prompt
<1>14. Server(x, 0)
  BY <1>2, <1>8, WorldFields
     DEF Server, Agrees, Fresh, Blank, Slots, Held, Loose, Waits, Alone, Told, Findable
<1>15. Inv(x, 0)
  BY <1>1, <1>2, <1>8, <1>11, <1>12, <1>13, <1>14 DEF Inv, Base, Sound
<1>16. Becomes(x)
  <2>1. loop' = l
    BY <1>3 DEF l
  <2>2. UNCHANGED <<db, gatt, inside, crashed, done, answers, stray, prompt>>
    BY DEF Wait, history
  <2> QED
    BY <1>8, <2>1, <2>2 DEF Becomes
<1> QED
  BY <1>8, <1>15, <1>16, BecomesIs

\* The callback of an event that has been freed: the owner is to blame.
LEMMA WildEventKeeps ==
    ASSUME PendingInv, WildEvent
    PROVE  PendingInv'
<1>1. ~crashed /\ loop.batch # <<>> /\ loop.batch[1].wild /\ Becomes(Crashed(Over))
  BY DEF WildEvent
<1>2. /\ Over \in Worlds /\ Over.stray = stray /\ stray /\ Over.prompt = prompt
      /\ Filled(Over)
  BY <1>1, OverKeeps
<1>3. prompt => ~stray
  BY <1>1, InvIs
<1> DEFINE x == Crashed(Over)
<1>4. /\ x \in Worlds /\ x.crashed /\ x.db = Over.db /\ x.stray = Over.stray
      /\ x.prompt = Over.prompt
  BY <1>2, CrashedIs
<1> HIDE DEF x
<1>5. Inv(x, 0)
  BY <1>2, <1>3, <1>4 DEF Inv, Base, Filled
<1> QED
  BY <1>1, <1>4, <1>5, BecomesIs DEF x

\* A timer expires.
LEMMA ExpireStep ==
    ASSUME PendingInv, NEW p \in Ids, Expire(p)
    PROVE  PendingInv'
<1> DEFINE n == loop.batch[1].fd
           y == Result(TimerForgotten(Dequeued(Over, p), p), p, TRUE, FALSE)
<1>1. /\ ~crashed /\ inside = None /\ loop.batch # <<>> /\ loop.list[n] = p
      /\ Becomes(IF ~y.crashed /\ y.loop.list[n] = p
                 THEN [y EXCEPT !.loop = Removed(@, n)] ELSE Crashed(y))
  BY DEF Expire, Event
<1>2. /\ Inv(Over, 0) /\ Over \in Worlds /\ ~Over.crashed /\ Over.loop.list = loop.list
      /\ Over.loop.returned = loop.returned /\ Over.db = db
      /\ Over.inside = inside /\ Over.prompt = prompt
      /\ ~loop.returned /\ n \in Numbers
      /\ \A k \in Turns(Over.loop) : Over.loop.batch[k].fd # n
      /\ Sound(Over)
  BY <1>1, OverKeeps
<1>3. ~prompt
  BY <1>1, <1>2 DEF Sound, Timers, Prompt
<1>4. Over.loop.list[n] = p /\ Over.loop.list[n] \in Ids
  BY <1>1, <1>2
<1> HIDE DEF n
<1> DEFINE z == [y EXCEPT !.loop = Removed(@, n)]
           c == Crashed(y)
<1>5. \/ ~y.crashed /\ y.loop.list[n] = p /\ Inv(z, 0)
      \/ y.crashed /\ Inv(c, 0)
  BY <1>2, <1>3, <1>4, ExpireKeeps
<1>6. Becomes(IF ~y.crashed /\ y.loop.list[n] = p THEN z ELSE c)
  BY <1>1 DEF n
<1> HIDE DEF y, z, c
<1>7. CASE ~y.crashed /\ y.loop.list[n] = p /\ Inv(z, 0)
  <2>1. Becomes(z) /\ z \in Worlds
    BY <1>6, <1>7 DEF Inv, Base
  <2> QED
    BY <1>7, <2>1, BecomesIs
<1>8. CASE y.crashed /\ Inv(c, 0)
  <2>1. Becomes(c) /\ c \in Worlds
    BY <1>6, <1>8 DEF Inv, Base
  <2> QED
    BY <1>8, <2>1, BecomesIs
<1> QED
  BY <1>5, <1>7, <1>8


\* A request of the peer makes an op and asks the owner.
LEMMA RequestKeeps ==
    ASSUME PendingInv, NEW kind \in Slotted \cup Raw,
           NEW attrs \in Seq(Attrs), attrs # <<>>,
           kind = "by_type" => ToSet(attrs) \subseteq db.alive,
           Request(kind, attrs)
    PROVE  PendingInv'
<1> DEFINE o == db.next
           op == [kind |-> kind, server |-> gatt.server, db_data |-> Tail(attrs)]
           f == [gatt.op EXCEPT ![o] = op]
           t == IF kind \in Raw THEN gatt.slot ELSE [gatt.slot EXCEPT ![SlotOf(kind)] = o]
           g == [gatt EXCEPT !.op = f, !.slot = t]
           v == [Over EXCEPT !.gatt = g]
           x == Asked(v, Head(attrs), SlotOf(kind), o)
<1>1. /\ ~crashed /\ inside = None /\ loop.batch # <<>>
      /\ gatt.server # 0 /\ o \in Ids /\ Becomes(x)
      /\ kind \in Slotted => gatt.slot[SlotOf(kind)] = None
  BY DEF Request, Event
<1>2. /\ Over \in Worlds /\ ~Over.crashed /\ Over.db = db /\ Over.gatt = gatt
      /\ Over.loop.returned = loop.returned /\ Over.stray = stray
      /\ Over.inside = inside /\ Over.prompt = prompt /\ ~loop.returned
      /\ Sound(Over) /\ Server(Over, 0) /\ Filled(Over)
  BY <1>1, OverKeeps
<1>3. /\ gatt \in Gatts /\ gatt.op \in [Ids -> Ops] /\ gatt.server \in 0 .. MaxServers
      /\ gatt.slot \in [SlotNames -> Ids \cup {None}] /\ db.alive \subseteq Attrs
  BY <1>2, WorldIs
<1>4. /\ Head(attrs) \in Attrs /\ Tail(attrs) \in Seq(Attrs)
      /\ kind = "by_type" =>
            \A k \in 1 .. Len(Tail(attrs)) : Tail(attrs)[k] \in db.alive
  <2>1. /\ Head(attrs) \in Attrs /\ Tail(attrs) \in Seq(Attrs)
        /\ \A k \in 1 .. Len(Tail(attrs)) :
              Tail(attrs)[k] = attrs[k + 1] /\ k + 1 \in DOMAIN attrs
    OBVIOUS
  <2> QED
    BY <2>1 DEF ToSet
<1>5. /\ op \in Ops /\ op.kind = kind /\ op.server = gatt.server
      /\ op.db_data = Tail(attrs) /\ SlotOf(kind) \in SlotNames /\ kind # "none"
      /\ kind \in Raw <=> kind \notin Slotted
  BY <1>3, <1>4 DEF Ops, Kinds, SlotOf, SlotNames, Slotted, Raw
<1> HIDE DEF op
<1>6. f \in [Ids -> Ops] /\ f[o] = op /\ \A q \in Ids : q # o => f[q] = gatt.op[q]
  BY <1>1, <1>3, <1>5
<1>7. /\ t \in [SlotNames -> Ids \cup {None}]
      /\ kind \in Slotted => t[SlotOf(kind)] = o
      /\ \A s \in SlotNames : s # SlotOf(kind) \/ kind \in Raw => t[s] = gatt.slot[s]
  BY <1>1, <1>3, <1>5
<1> HIDE DEF f, t
<1>8. g \in Gatts /\ g.op = f /\ g.slot = t /\ g.server = gatt.server
  BY <1>3, <1>6, <1>7 DEF Gatts
<1> HIDE DEF g
<1>9. /\ v \in Worlds /\ v.gatt = g /\ v.loop = Over.loop /\ v.db = Over.db
      /\ v.inside = Over.inside /\ v.stray = Over.stray /\ v.prompt = Over.prompt
      /\ v.crashed = Over.crashed /\ v.done = Over.done /\ v.answers = Over.answers
  BY <1>2, <1>8 DEF Worlds
<1> HIDE DEF v
<1>10. Sound(v) /\ Filled(v)
  BY <1>2, <1>9, SoundDepends
<1>11. o >= db.next /\ \A q \in Ids : q > db.next => q >= db.next /\ q # o
  BY <1>1 DEF Ids
<1>12. /\ gatt.op[o].kind = "none" /\ Over.answers[o] = 0 /\ o \notin db.queued
       /\ gatt.op[o] = NoOp
  BY <1>1, <1>2, <1>11 DEF Server, Agrees, Fresh, Blank
<1>13. Later(v)
  <2>1. \A q \in Ids : q > db.next =>
           gatt.op[q].kind = "none" /\ Over.answers[q] = 0 /\ q \notin db.queued
    BY <1>2, <1>11 DEF Server, Fresh
  <2> QED
    BY <1>2, <1>6, <1>8, <1>9, <1>11, <1>12, <2>1 DEF Later
<1>14. Blank(v) /\ Told(v)
  BY <1>2, <1>5, <1>6, <1>8, <1>9, <1>12 DEF Server, Agrees, Blank, Told
<1>15. Slots(v)
  <2>1. ASSUME NEW s \in SlotNames, t[s] # None
        PROVE  /\ t[s] \in Ids /\ gatt.server # 0
               /\ f[t[s]].server = gatt.server /\ SlotOf(f[t[s]].kind) = s
               /\ f[t[s]].kind \in Slotted
    <3>1. CASE s = SlotOf(kind) /\ kind \in Slotted
      BY <1>1, <1>5, <1>6, <1>7, <3>1
    <3>2. CASE s # SlotOf(kind) \/ kind \in Raw
      <4>1. /\ t[s] = gatt.slot[s] /\ t[s] \in Ids /\ gatt.server # 0
            /\ gatt.op[t[s]].server = gatt.server /\ SlotOf(gatt.op[t[s]].kind) = s
            /\ gatt.op[t[s]].kind \in Slotted
        BY <1>2, <1>7, <2>1, <3>2 DEF Server, Agrees, Slots
      <4>2. t[s] # o
        BY <4>1, <1>12 DEF NoOp
      <4> QED
        BY <1>6, <4>1, <4>2
    <3> QED
      BY <3>1, <3>2
  <2> QED
    BY <1>8, <1>9, <2>1 DEF Slots
<1>16. Held(v)
  <2>1. ASSUME NEW q \in Ids, f[q].server # 0, f[q].kind \in Slotted
        PROVE  t[SlotOf(f[q].kind)] = q
    <3>1. CASE q = o
      BY <1>5, <1>6, <1>7, <2>1, <3>1
    <3>2. CASE q # o
      <4>1. f[q] = gatt.op[q] /\ SlotOf(gatt.op[q].kind) \in SlotNames
        BY <1>6, <3>2 DEF SlotOf, SlotNames
      <4>2. gatt.slot[SlotOf(gatt.op[q].kind)] = q
        BY <1>2, <2>1, <4>1 DEF Server, Agrees, Held
      <4>3. SlotOf(gatt.op[q].kind) # SlotOf(kind) \/ kind \in Raw
        BY <1>1, <1>5, <4>2, PendingNames
      <4> QED
        BY <1>7, <4>1, <4>2, <4>3
    <3> QED
      BY <3>1, <3>2
  <2> QED
    BY <1>8, <1>9, <2>1 DEF Held
<1>17. Waits(v, o)
  <2>1. \A q \in Ids : q # 0
    BY DEF Ids
  <2>2. \A q \in Ids : gatt.op[q].kind # "none" <=>
           \E p \in db.queued : db.pending[p].op = q
    BY <1>2, <2>1 DEF Server, Agrees, Waits
  <2>3. \A q \in Ids : f[q].kind # "none" <=> (q = o \/ gatt.op[q].kind # "none")
    BY <1>5, <1>6
  <2> QED
    BY <1>2, <1>8, <1>9, <2>2, <2>3 DEF Waits
<1>18. Alone(v, o)
  <2>1. \A q \in db.queued : db.pending[q].op # o
    <3>1. \A q \in Ids : q # 0
      BY DEF Ids
    <3> QED
      BY <1>1, <1>2, <1>12, <3>1 DEF Server, Agrees, Waits
  <2>2. \A p, q \in db.queued : db.pending[p].op = db.pending[q].op => p = q
    BY <1>2 DEF Server, Agrees, Alone
  <2> QED
    BY <1>2, <1>9, <2>1, <2>2 DEF Alone
<1>19. Findable(v)
  <2>1. ASSUME ~stray, NEW q \in Ids, f[q].kind = "by_type",
               NEW k \in 1 .. Len(f[q].db_data)
        PROVE  f[q].db_data[k] \in db.alive
    <3>1. CASE q = o
      BY <1>4, <1>5, <1>6, <2>1, <3>1
    <3>2. CASE q # o
      BY <1>2, <1>6, <2>1, <3>2 DEF Server, Agrees, Findable
    <3> QED
      BY <3>1, <3>2
  <2> QED
    BY <1>2, <1>8, <1>9, <2>1 DEF Findable
<1>20. Agrees(v, o)
  <2>1. Loose(v)
    BY <1>1, <1>2, <1>5, <1>6, <1>8, <1>9 DEF Server, Agrees, Loose
  <2> QED
    BY <1>14, <1>15, <1>16, <1>17, <1>18, <1>19, <2>1 DEF Agrees
<1>21. prompt => db.queued = {}
  BY <1>1, <1>2 DEF Sound, Prompt
<1> DEFINE head == Head(attrs)
           s == SlotOf(kind)
<1>22. /\ head \in Attrs /\ s \in SlotNames /\ v.db.next \in Ids /\ o \in Ids
       /\ v.db.next \notin v.db.queued
       /\ v.prompt => v.db.queued = {} /\ ~v.loop.returned
       /\ v.gatt.op[o].kind # "none"
  BY <1>1, <1>2, <1>3, <1>4, <1>5, <1>6, <1>8, <1>9, <1>12, <1>21
<1> DEFINE y == Asked(v, head, s, o)
<1>23. Becomes(y)
  BY <1>1
<1> HIDE DEF x, head, s, o
<1>24. Sound(y)
  BY <1>9, <1>10, <1>22, AskedSound
<1>25. Filled(y) /\ Server(y, 0)
  BY <1>9, <1>10, <1>13, <1>20, <1>22, AskedServer
<1>26. /\ y \in Worlds /\ y.crashed = v.crashed /\ y.stray = v.stray
       /\ y.prompt = v.prompt
  BY <1>9, <1>22, AskedChanges
<1> HIDE DEF y
<1>27. prompt => ~stray
  BY <1>1, InvIs
<1>28. Inv(y, 0)
  BY <1>2, <1>9, <1>24, <1>25, <1>26, <1>27 DEF Inv, Base
<1> QED
  BY <1>23, <1>26, <1>28, BecomesIs

\* All requests.
LEMMA RequestsKeep ==
    ASSUME PendingInv, Requests
    PROVE  PendingInv'
<1>1. ~crashed
  BY DEF Requests, Request, Event
<1>2. db.alive \subseteq Attrs
  BY <1>1, InvIs DEF Dbs
<1>3. ASSUME NEW kind \in {"read", "write", "cmd", "prepare"}, NEW a \in db.alive,
             Request(kind, <<a>>)
      PROVE  PendingInv'
  <2> DEFINE attrs == <<a>>
  <2>1. attrs \in Seq(Attrs) /\ attrs # <<>> /\ Request(kind, attrs)
    BY <1>2, <1>3
  <2>2. kind \in Slotted \cup Raw /\ kind # "by_type"
    BY DEF Slotted, Raw
  <2> HIDE DEF attrs
  <2> QED
    BY <2>1, <2>2, RequestKeeps
<1>4. ASSUME NEW kind \in {"by_type", "multiple", "execute"}, NEW list \in Lists,
             kind = "by_type" => ToSet(list) \subseteq db.alive, Request(kind, list)
      PROVE  PendingInv'
  <2>1. list \in Seq(Attrs) /\ list # <<>>
    BY ListsAssumption
  <2>2. kind \in Slotted \cup Raw
    BY DEF Slotted, Raw
  <2> QED
    BY <1>4, <2>1, <2>2, RequestKeeps
<1> QED
  BY <1>3, <1>4 DEF Requests

\* The bearer is disconnected: its io goes, the owner is told.
LEMMA DisconnectKeeps ==
    ASSUME PendingInv, Disconnect
    PROVE  PendingInv'
<1> DEFINE n == loop.batch[1].fd
           l == Removed(NextEvent(loop), n)
           x == [Over EXCEPT !.inside = Owner, !.loop = l]
<1>1. /\ ~crashed /\ inside = None /\ loop.batch # <<>> /\ loop.list[n] = Io
      /\ Becomes(x)
  BY DEF Disconnect, Event
<1>2. /\ Inv(Over, 0) /\ Over \in Worlds /\ ~Over.crashed /\ Over.loop.list = loop.list
      /\ Over.loop = NextEvent(loop)
      /\ ~Over.loop.returned /\ Over.inside = inside /\ n \in Numbers
      /\ \A k \in Turns(Over.loop) : Over.loop.batch[k].fd # n
      /\ Sound(Over) /\ Server(Over, 0) /\ Filled(Over) /\ Over.loop \in Loops
  BY <1>1, OverKeeps, WorldIs
<1>3. /\ l \in Loops /\ l.batch = Over.loop.batch
      /\ l.list = [loop.list EXCEPT ![n] = Free]
      /\ l.terminate = Over.loop.terminate /\ l.returned = Over.loop.returned
  <2> DEFINE over == Over.loop
             gone == Removed(over, n)
  <2>1. /\ over \in Loops /\ n \in Numbers /\ over.list = loop.list /\ l = gone
        /\ \A k \in Turns(over) : over.batch[k].fd # n
    BY <1>2
  <2> HIDE DEF over, n, l
  <2>2. gone \in Loops /\ gone.list = [over.list EXCEPT ![n] = Free]
        /\ gone.terminate = over.terminate /\ gone.returned = over.returned
    BY <2>1, RemovedIs
  <2>3. gone.batch = over.batch
    BY <2>1, RemovedQuietly
  <2> HIDE DEF gone
  <2>4. /\ l \in Loops /\ l.batch = over.batch /\ l.list = [loop.list EXCEPT ![n] = Free]
        /\ l.terminate = over.terminate /\ l.returned = over.returned
    BY <2>1, <2>2, <2>3
  <2> QED
    BY <2>4 DEF over
<1>4. loop.list \in [Numbers -> Owners]
  BY <1>2 DEF Loops
<1> HIDE DEF n, l
<1>5. /\ x \in Worlds /\ x.loop = l /\ x.inside = Owner /\ x.db = Over.db
      /\ x.gatt = Over.gatt /\ x.crashed = Over.crashed /\ x.done = Over.done
      /\ x.answers = Over.answers /\ x.stray = Over.stray /\ x.prompt = Over.prompt
  BY <1>2, <1>3 DEF Worlds
<1> HIDE DEF x
<1>6. \A m \in Numbers : l.list[m] \in Ids => l.list[m] = loop.list[m]
  BY <1>2, <1>3, <1>4, PendingNames
<1>7. \A m \in Numbers : loop.list[m] \in Ids => l.list[m] = loop.list[m]
  BY <1>1, <1>2, <1>3, <1>4, PendingNames DEF n
<1>8. Counted(x) /\ Filled(x)
  BY <1>2, <1>5 DEF Sound, Counted, Filled
<1>9. Timers(x)
  <2>1. 0 \in Numbers
    BY LoopConstants
  <2>2. \A p \in Over.db.queued : Over.db.pending[p].timeout_id \in Numbers /\ p \in Ids
    BY <1>2, WorldIs DEF Pendings
  <2>3. /\ loop.list[0] \notin Ids
        /\ \A m \in Numbers : loop.list[m] \in Ids =>
              loop.list[m] \in Over.db.queued /\ Over.db.pending[loop.list[m]].timeout_id = m
        /\ \A p \in Over.db.queued : Over.db.pending[p].timeout_id # 0 =>
              loop.list[Over.db.pending[p].timeout_id] = p
    BY <1>2 DEF Sound, Timers
  <2>4. \A p \in Over.db.queued : Over.db.pending[p].timeout_id # 0 =>
           l.list[Over.db.pending[p].timeout_id] = p
    BY <1>7, <2>2, <2>3
  <2>5. \A m \in Numbers : l.list[m] \in Ids =>
           l.list[m] \in Over.db.queued /\ Over.db.pending[l.list[m]].timeout_id = m
    BY <1>6, <2>3
  <2>6. l.list[0] \notin Ids
    BY <1>6, <2>1, <2>3
  <2> QED
    BY <1>5, <2>4, <2>5, <2>6 DEF Timers
<1>10. Turns(l) = Turns(Over.loop)
  BY <1>3 DEF Turns
<1>11. Rounds(x)
  BY <1>2, <1>3, <1>5, <1>10 DEF Sound, Rounds
<1>12. Prompt(x)
  <2>1. ASSUME Over.prompt, NEW k \in Turns(l) PROVE l.list[l.batch[k].fd] \in {Io, Owner}
    <3>1. /\ l.batch[k].fd = Over.loop.batch[k].fd /\ l.batch[k].fd # n
          /\ loop.list[l.batch[k].fd] \in {Io, Owner}
      BY <1>2, <1>3, <1>10, <2>1 DEF Sound, Prompt
    <3>2. l.batch[k].fd \in Numbers
      BY <1>3, <2>1, FdIs
    <3> QED
      BY <1>3, <1>4, <3>1, <3>2
  <2>2. Over.prompt => \A p, q \in Over.db.queued : p = q
    BY <1>2 DEF Sound, Prompt
  <2> QED
    BY <1>2, <1>3, <1>5, <2>1, <2>2, PendingNames DEF Prompt
<1>13. Server(x, 0)
  BY <1>2, <1>5
     DEF Server, Agrees, Fresh, Blank, Slots, Held, Loose, Waits, Alone, Told, Findable
<1>14. Inv(x, 0)
  BY <1>2, <1>5, <1>8, <1>9, <1>11, <1>12, <1>13 DEF Inv, Base, Sound
<1> QED
  BY <1>1, <1>5, <1>14, BecomesIs DEF x, l, n

\* Another owner of control.
LEMMA InsideKeeps ==
    ASSUME NEW w, Inv(w, 0), ~w.crashed, NEW o \in Ids \cup {None, Owner},
           o = None => ~w.loop.returned /\ (w.prompt => w.db.queued = {})
    PROVE  Inv([w EXCEPT !.inside = o], 0)
<1> DEFINE x == [w EXCEPT !.inside = o]
<1>1. w \in Worlds /\ Filled(w) /\ Sound(w) /\ Server(w, 0) /\ (w.prompt => ~w.stray)
  BY DEF Inv, Base
<1>2. /\ x \in Worlds /\ x.loop = w.loop /\ x.inside = o /\ x.db = w.db
      /\ x.gatt = w.gatt /\ x.crashed = w.crashed /\ x.done = w.done
      /\ x.answers = w.answers /\ x.stray = w.stray /\ x.prompt = w.prompt
  BY <1>1 DEF Worlds
<1> HIDE DEF x
<1>3. Filled(x) /\ Counted(x) /\ Timers(x)
  BY <1>1, <1>2 DEF Sound, Counted, Timers, Filled
<1>4. Rounds(x)
  BY <1>1, <1>2 DEF Sound, Rounds
<1>5. Prompt(x)
  BY <1>1, <1>2 DEF Sound, Prompt
<1>6. Server(x, 0)
  BY <1>1, <1>2
     DEF Server, Agrees, Fresh, Blank, Slots, Held, Loose, Waits, Alone, Told, Findable
<1>7. Inv(x, 0)
  BY <1>1, <1>2, <1>3, <1>4, <1>5, <1>6 DEF Inv, Base, Sound
<1> QED
  BY <1>7 DEF x

\* An event of the owner's, or one nothing is asked for.
LEMMA OtherEventKeeps ==
    ASSUME PendingInv, OtherEvent
    PROVE  PendingInv'
<1>1. ~crashed /\ loop.batch # <<>>
  BY DEF OtherEvent, Event
<1>2. Inv(Over, 0) /\ Over \in Worlds /\ ~Over.crashed
  BY <1>1, OverKeeps
<1> DEFINE x == [Over EXCEPT !.inside = Owner]
<1>3. Inv(x, 0)
  BY <1>2, InsideKeeps, PendingNames
<1>4. x \in Worlds
  BY <1>3 DEF Inv, Base
<1>5. Becomes(x) \/ Becomes(Over)
  BY DEF OtherEvent
<1> HIDE DEF x
<1> QED
  BY <1>2, <1>3, <1>4, <1>5, BecomesIs


\* The end of the loop.
LEMMA ReturnKeeps ==
    ASSUME PendingInv, Return
    PROVE  PendingInv'
<1> DEFINE l == Cleared(loop)
           x == [World EXCEPT !.loop = l, !.inside = Owner]
<1>1. /\ ~crashed /\ inside = None /\ loop.batch = <<>> /\ loop.terminate
      /\ Becomes(x)
  BY WorldFields DEF Return
<1>2. /\ World \in Worlds /\ Filled(World) /\ Sound(World) /\ Server(World, 0)
      /\ (prompt => ~stray) /\ loop \in Loops
  BY <1>1, InvIs
<1>3. /\ l \in Loops /\ l.batch = <<>> /\ l.terminate /\ l.returned
      /\ \A n \in Numbers : l.list[n] = Free
  BY <1>1, <1>2 DEF Cleared, Loops, Owners
<1> HIDE DEF l
<1>4. /\ x \in Worlds /\ x.loop = l /\ x.inside = Owner /\ x.db = db
      /\ x.gatt = gatt /\ x.crashed = crashed /\ x.done = done
      /\ x.answers = answers /\ x.stray = stray /\ x.prompt = prompt
  BY <1>2, <1>3, WorldFields DEF Worlds
<1> HIDE DEF x
<1>5. Counted(x) /\ Filled(x)
  BY <1>2, <1>4, WorldFields DEF Sound, Counted, Filled
<1>6. Timers(x)
  BY <1>3, <1>4, PendingNames, LoopConstants DEF Timers
<1>7. Turns(l) = {}
  BY <1>3 DEF Turns
<1>8. Rounds(x)
  BY <1>3, <1>4, <1>7, PendingNames DEF Rounds
<1>9. Prompt(x)
  <2>1. prompt => db.queued = {}
    BY <1>1, <1>2, WorldFields DEF Sound, Prompt
  <2> QED
    BY <1>3, <1>4, <1>7, <2>1, PendingNames DEF Prompt
<1>10. Server(x, 0)
  BY <1>2, <1>4, WorldFields
     DEF Server, Agrees, Fresh, Blank, Slots, Held, Loose, Waits, Alone, Told, Findable
<1>11. Inv(x, 0)
  BY <1>1, <1>2, <1>4, <1>5, <1>6, <1>8, <1>9, <1>10 DEF Inv, Base, Sound
<1> QED
  BY <1>1, <1>4, <1>11, BecomesIs DEF x, l

\* The owner answers.
LEMMA AnswerKeeps ==
    ASSUME PendingInv, NEW p \in Ids, Answer(p)
    PROVE  PendingInv'
<1>1. ~crashed /\ inside # None /\ p \in db.queued
  BY DEF Answer, Inside
<1>2. PICK err \in BOOLEAN, full \in BOOLEAN :
        /\ db.next \notin Ids => full
        /\ LET w == Result(Dequeued(World, p), p, err, full)
           IN Becomes(IF p = inside /\ w.inside = p THEN [w EXCEPT !.inside = Owner] ELSE w)
  BY DEF Answer
<1> DEFINE w == Result(Dequeued(World, p), p, err, full)
           x == [w EXCEPT !.inside = Owner]
<1>3. Inv(World, 0) /\ ~World.crashed /\ World.db = db /\ World \in Worlds
  BY <1>1, InvIs, WorldFields
<1>4. p \in World.db.queued /\ (err \/ full \/ World.db.next \in Ids)
  BY <1>1, <1>2, <1>3
<1>5. Inv(w, 0)
  BY <1>3, <1>4, ResultKeeps
<1>6. Becomes(x) \/ Becomes(w)
  BY <1>2
<1> HIDE DEF w
<1>7. w \in Worlds
  BY <1>5 DEF Inv, Base
<1>8. Inv(x, 0)
  <2>1. CASE ~w.crashed
    BY <1>5, <2>1, InsideKeeps, PendingNames
  <2>2. CASE w.crashed
    <3>1. /\ x \in Worlds /\ x.db = w.db /\ x.crashed = w.crashed
          /\ x.stray = w.stray /\ x.prompt = w.prompt
      BY <1>7 DEF Worlds
    <3> HIDE DEF x
    <3> QED
      BY <1>5, <2>2, <3>1 DEF Inv, Base, Filled
  <2> QED
    BY <2>1, <2>2
<1>9. x \in Worlds
  BY <1>8 DEF Inv, Base
<1> HIDE DEF x
<1> QED
  BY <1>5, <1>6, <1>7, <1>8, <1>9, BecomesIs

\* The owner destroys an attribute.
LEMMA DestroyKeeps ==
    ASSUME PendingInv, NEW a \in Attrs, Destroy(a)
    PROVE  PendingInv'
<1> DEFINE pr == Destroyed(World, a).prompt /\ db.queued = {}
           x == [Destroyed(World, a) EXCEPT !.prompt = pr]
<1>1. ~crashed /\ inside # None /\ Becomes(x)
  BY DEF Destroy, Inside
<1>2. Inv(World, 0) /\ ~World.crashed /\ World.inside # None /\ World.db = db
      /\ World.prompt = prompt /\ World \in Worlds
  BY <1>1, InvIs, WorldFields
<1>3. Destroyed(World, a).prompt = World.prompt
  <2> DEFINE v == AllCancelled(AllCancelled(World, a, "read"), a, "write")
             d == [v.db EXCEPT !.alive = @ \ {a}]
             s == v.stray \/ \E o \in Ids : /\ v.gatt.op[o].kind = "by_type"
                                           /\ a \in ToSet(v.gatt.op[o].db_data)
  <2>1. Keeps(World, World)
    BY <1>2 DEF Keeps
  <2>2. Keeps(v, World)
    BY <2>1, AllCancelledKeeps
  <2>3. Destroyed(World, a) = [v EXCEPT !.db = d, !.stray = s]
    BY DEF Destroyed
  <2> HIDE DEF v, d, s
  <2>4. v \in Worlds /\ v.prompt = World.prompt
    BY <2>2 DEF Keeps, Inv, Base
  <2> QED
    BY <2>3, <2>4 DEF Worlds
<1>4. pr \in BOOLEAN /\ (pr <=> (World.prompt /\ World.db.queued = {}))
  BY <1>2, <1>3
<1> HIDE DEF pr
<1>5. Inv(x, 0)
  BY <1>2, <1>4, DestroyedKeeps
<1> HIDE DEF x
<1>6. x \in Worlds
  BY <1>5 DEF Inv, Base
<1> QED
  BY <1>1, <1>5, <1>6, BecomesIs DEF x, pr

\* The server goes; its pending ops forget it, and if there are others the
\* owner did what is not safe.
LEMMA FreeServerKeeps ==
    ASSUME PendingInv, FreeServer
    PROVE  PendingInv'
<1> DEFINE held == {gatt.slot.read, gatt.slot.write}
           f == [q \in Ids |-> IF q \in held THEN [gatt.op[q] EXCEPT !.server = 0]
                               ELSE gatt.op[q]]
           t == [read |-> None, write |-> None]
           g == [gatt EXCEPT !.server = 0, !.slot = t, !.op = f]
           st == stray \/ Dangling(World)
           pr == prompt /\ ~Dangling(World)
           x == [World EXCEPT !.gatt = g, !.stray = st, !.prompt = pr]
<1>1. ~crashed /\ Becomes(x)
  BY WorldFields DEF FreeServer, Inside, ServerFreed
<1>2. /\ World \in Worlds /\ Filled(World) /\ Sound(World) /\ Server(World, 0)
      /\ (prompt => ~stray) /\ gatt \in Gatts
  BY <1>1, InvIs
<1>3. gatt.op \in [Ids -> Ops] /\ gatt.slot \in [SlotNames -> Ids \cup {None}]
  BY <1>2 DEF Gatts
<1>4. \A q \in Ids : gatt.op[q].server # 0 /\ gatt.op[q].kind \in Slotted => q \in held
  <2>1. ASSUME NEW q \in Ids, gatt.op[q].server # 0, gatt.op[q].kind \in Slotted
        PROVE  q \in held
    <3>1. gatt.slot[SlotOf(gatt.op[q].kind)] = q
      BY <1>2, <2>1, WorldFields DEF Server, Agrees, Held
    <3>2. SlotOf(gatt.op[q].kind) \in {"read", "write"}
      BY DEF SlotOf
    <3> QED
      BY <3>1, <3>2
  <2> QED
    BY <2>1
<1>5. \A q \in held \ {None} : q \in Ids /\ gatt.op[q].kind \in Slotted
  <2>1. ASSUME NEW s \in SlotNames, gatt.slot[s] # None
        PROVE  gatt.slot[s] \in Ids /\ gatt.op[gatt.slot[s]].kind \in Slotted
    BY <1>2, <2>1, WorldFields DEF Server, Agrees, Slots
  <2> QED
    BY <2>1 DEF SlotNames
<1> HIDE DEF held
<1>6. /\ f \in [Ids -> Ops]
      /\ \A q \in Ids : /\ f[q].kind = gatt.op[q].kind
                        /\ f[q].db_data = gatt.op[q].db_data
                        /\ f[q].kind \in Slotted => f[q].server = 0
                        /\ f[q].kind \notin Slotted => f[q] = gatt.op[q]
  <2>1. ASSUME NEW q \in Ids
        PROVE  /\ f[q] \in Ops /\ f[q].kind = gatt.op[q].kind
               /\ f[q].db_data = gatt.op[q].db_data
               /\ f[q].kind \in Slotted => f[q].server = 0
               /\ f[q].kind \notin Slotted => f[q] = gatt.op[q]
    <3>1. gatt.op[q] \in Ops
      BY <1>3
    <3>2. CASE q \in held
      <4>1. q # None
        BY PendingNames
      <4> QED
        BY <1>5, <3>1, <3>2, <4>1, PendingConstants DEF Ops
    <3>3. CASE q \notin held
      BY <1>4, <3>1, <3>3
    <3> QED
      BY <3>2, <3>3
  <2>2. f \in [Ids -> Ops]
    BY <2>1
  <2> HIDE DEF f
  <2> QED
    BY <2>1, <2>2
<1> HIDE DEF f
<1>7. t \in [SlotNames -> Ids \cup {None}] /\ \A s \in SlotNames : t[s] = None
  BY DEF SlotNames
<1> HIDE DEF t
<1>8. g \in Gatts /\ g.server = 0 /\ g.slot = t /\ g.op = f
  <2>1. 0 \in 0 .. MaxServers
    BY PendingConstants
  <2> DEFINE a == [gatt EXCEPT !.server = 0]
             b == [a EXCEPT !.slot = t]
             c == [b EXCEPT !.op = f]
  <2>2. a \in Gatts /\ a.server = 0
    BY <1>2, <2>1 DEF Gatts
  <2>3. g = c
    OBVIOUS
  <2> HIDE DEF a, g
  <2>4. b \in Gatts /\ b.server = 0 /\ b.slot = t
    BY <1>7, <2>2 DEF Gatts
  <2> HIDE DEF b
  <2>5. c \in Gatts /\ c.server = 0 /\ c.slot = t /\ c.op = f
    BY <1>6, <2>4 DEF Gatts
  <2> QED
    BY <2>3, <2>5
<1> HIDE DEF g
<1>9. /\ st \in BOOLEAN /\ pr \in BOOLEAN /\ (stray => st) /\ (pr => prompt)
      /\ Dangling(World) => st
      /\ (prompt => ~stray) => (pr => ~st)
  <2>1. prompt \in BOOLEAN /\ stray \in BOOLEAN
    BY <1>2, WorldIs, WorldFields
  <2> QED
    BY <2>1
<1> HIDE DEF st, pr
<1>10. /\ x \in Worlds /\ x.loop = loop /\ x.inside = inside /\ x.db = db
       /\ x.gatt = g /\ x.crashed = crashed /\ x.done = done
       /\ x.answers = answers /\ x.stray = st /\ x.prompt = pr
  BY <1>2, <1>8, <1>9, WorldFields DEF Worlds
<1> HIDE DEF x
<1>11. Sound(x) /\ Filled(x)
  <2>1. Counted(x) /\ Timers(x) /\ Filled(x)
    BY <1>2, <1>10, WorldFields DEF Sound, Counted, Timers, Filled
  <2>2. Rounds(x)
    BY <1>2, <1>9, <1>10, WorldFields DEF Sound, Rounds
  <2>3. Prompt(x)
    BY <1>2, <1>9, <1>10, WorldFields DEF Sound, Prompt
  <2> QED
    BY <2>1, <2>2, <2>3 DEF Sound
<1>12. Fresh(x) /\ Waits(x, 0) /\ Alone(x, 0) /\ Told(x)
  BY <1>2, <1>6, <1>8, <1>10, WorldFields DEF Server, Agrees, Fresh, Waits, Alone, Told
<1>13. Blank(x)
  <2>1. "none" \notin Slotted
    BY DEF Slotted
  <2> QED
    BY <1>2, <1>6, <1>8, <1>10, <2>1, WorldFields DEF Server, Agrees, Blank
<1>14. Slots(x) /\ Held(x)
  BY <1>6, <1>7, <1>8, <1>10 DEF Slots, Held
<1>15. Loose(x)
  <2>1. ASSUME NEW q \in Ids, f[q].kind \in Raw PROVE f[q].server # 0 /\ st
    <3>1. f[q].kind \notin Slotted
      BY <2>1 DEF Slotted, Raw
    <3>2. f[q] = gatt.op[q] /\ gatt.op[q].kind \in Raw
      BY <1>6, <2>1, <3>1
    <3>3. Dangling(World)
      BY <3>2, WorldFields DEF Dangling
    <3> QED
      BY <1>2, <1>9, <3>2, <3>3, WorldFields DEF Server, Agrees, Loose
  <2> QED
    BY <1>8, <1>10, <2>1 DEF Loose
<1>16. Findable(x)
  BY <1>2, <1>6, <1>8, <1>9, <1>10, WorldFields DEF Server, Agrees, Findable
<1>17. Inv(x, 0)
  BY <1>1, <1>2, <1>9, <1>10, <1>11, <1>12, <1>13, <1>14, <1>15, <1>16
     DEF Inv, Base, Server, Agrees
<1> QED
  BY <1>1, <1>10, <1>17, BecomesIs DEF x, st, pr, g, f, t, held

\* A client connects: no pending op that the server knows of is left of the
\* one that went.
LEMMA ConnectKeeps ==
    ASSUME PendingInv, NEW k \in 2 .. MaxServers, Connect(k)
    PROVE  PendingInv'
<1> DEFINE n == LowestFree(loop)
           l == AddFd(loop, Io)
           g == [gatt EXCEPT !.server = k]
           x == [World EXCEPT !.gatt = g, !.loop = l]
<1>1. /\ ~crashed /\ ~loop.returned /\ gatt.server = 0
      /\ Numbers \ Opened(loop) # {} /\ Becomes(x)
  BY WorldFields DEF Connect, Fits
<1>2. /\ World \in Worlds /\ Filled(World) /\ Sound(World) /\ Server(World, 0)
      /\ (prompt => ~stray) /\ gatt \in Gatts /\ loop \in Loops
  BY <1>1, InvIs
<1>3. /\ loop.list \in [Numbers -> Owners] /\ gatt.op \in [Ids -> Ops]
      /\ gatt.slot \in [SlotNames -> Ids \cup {None}]
  BY <1>2 DEF Loops, Gatts
<1>4. n \in Numbers /\ loop.list[n] = Free
  BY <1>1, <1>2, LowestFreeIs
<1>5. /\ l \in Loops /\ l.list = [loop.list EXCEPT ![n] = Io]
      /\ l.batch = loop.batch /\ l.terminate = loop.terminate
      /\ l.returned = loop.returned
  BY <1>2, AddFdIs DEF Owners
<1>6. l.list[n] = Io /\ \A m \in Numbers : m # n => l.list[m] = loop.list[m]
  BY <1>3, <1>4, <1>5
<1> HIDE DEF n, l
<1>7. g \in Gatts /\ g.server = k /\ g.slot = gatt.slot /\ g.op = gatt.op
  <2>1. k \in 0 .. MaxServers
    BY PendingConstants
  <2>2. gatt = [server |-> gatt.server, slot |-> gatt.slot, op |-> gatt.op]
    BY <1>2 DEF Gatts
  <2>3. g = [server |-> k, slot |-> gatt.slot, op |-> gatt.op]
    BY <2>2
  <2> HIDE DEF g
  <2> QED
    BY <2>1, <2>3, <1>3 DEF Gatts
<1> HIDE DEF g
<1>8. /\ x \in Worlds /\ x.loop = l /\ x.inside = inside /\ x.db = db
      /\ x.gatt = g /\ x.crashed = crashed /\ x.done = done
      /\ x.answers = answers /\ x.stray = stray /\ x.prompt = prompt
  BY <1>2, <1>5, <1>7, WorldFields DEF Worlds
<1> HIDE DEF x
<1>9. Counted(x) /\ Filled(x)
  BY <1>2, <1>8, WorldFields DEF Sound, Counted, Filled
<1>10. Timers(x)
  <2>1. 0 \in Numbers /\ Io \notin Ids
    BY LoopConstants, PendingNames
  <2>2. \A p \in db.queued : db.pending[p].timeout_id \in Numbers /\ p \in Ids
    BY <1>2, WorldIs, WorldFields DEF Pendings
  <2>3. /\ loop.list[0] \notin Ids
        /\ \A m \in Numbers : loop.list[m] \in Ids =>
              loop.list[m] \in db.queued /\ db.pending[loop.list[m]].timeout_id = m
        /\ \A p \in db.queued : db.pending[p].timeout_id # 0 =>
              loop.list[db.pending[p].timeout_id] = p
    BY <1>1, <1>2, WorldFields DEF Sound, Timers
  <2>4. \A p \in db.queued : db.pending[p].timeout_id # 0 =>
           l.list[db.pending[p].timeout_id] = p
    BY <1>4, <1>6, <2>2, <2>3, PendingNames
  <2>5. \A m \in Numbers : l.list[m] \in Ids =>
           l.list[m] \in db.queued /\ db.pending[l.list[m]].timeout_id = m
    BY <1>6, <2>1, <2>3
  <2>6. l.list[0] \notin Ids
    BY <1>6, <2>1, <2>3
  <2> QED
    BY <1>8, <2>4, <2>5, <2>6 DEF Timers
<1>11. Turns(l) = Turns(loop)
  BY <1>5 DEF Turns
<1>12. Rounds(x)
  BY <1>1, <1>2, <1>5, <1>8, <1>11, WorldFields DEF Sound, Rounds
<1>13. Prompt(x)
  <2>1. ASSUME prompt, NEW i \in Turns(l) PROVE l.list[l.batch[i].fd] \in {Io, Owner}
    <3>1. loop.list[loop.batch[i].fd] \in {Io, Owner}
      BY <1>2, <1>11, <2>1, WorldFields DEF Sound, Prompt
    <3>2. loop.batch[i].fd \in Numbers
      BY <1>2, <1>11, <2>1, FdIs
    <3> QED
      BY <1>5, <1>6, <3>1, <3>2
  <2>2. prompt => /\ \A p, q \in db.queued : p = q
                  /\ inside = None => db.queued = {}
    BY <1>2, WorldFields DEF Sound, Prompt
  <2> QED
    BY <1>1, <1>5, <1>8, <2>1, <2>2 DEF Prompt
<1>14. \A s \in SlotNames : gatt.slot[s] = None
  BY <1>1, <1>2, WorldFields DEF Server, Agrees, Slots
<1>15. \A q \in Ids : gatt.op[q].kind \in Slotted => gatt.op[q].server = 0
  <2>1. ASSUME NEW q \in Ids, gatt.op[q].server # 0, gatt.op[q].kind \in Slotted
        PROVE  FALSE
    <3>1. gatt.slot[SlotOf(gatt.op[q].kind)] = q
      BY <1>2, <2>1, WorldFields DEF Server, Agrees, Held
    <3>2. SlotOf(gatt.op[q].kind) \in SlotNames
      BY DEF SlotOf, SlotNames
    <3> QED
      BY <1>14, <3>1, <3>2, PendingNames
  <2> QED
    BY <2>1
<1>16. Slots(x) /\ Held(x) /\ Loose(x)
  <2>1. Slots(x) /\ Held(x)
    BY <1>7, <1>8, <1>14, <1>15 DEF Slots, Held
  <2>2. Loose(x)
    BY <1>1, <1>2, <1>7, <1>8, WorldFields DEF Server, Agrees, Loose
  <2> QED
    BY <2>1, <2>2
<1>17. Fresh(x) /\ Waits(x, 0) /\ Alone(x, 0) /\ Told(x) /\ Blank(x)
  BY <1>2, <1>7, <1>8, WorldFields
     DEF Server, Agrees, Fresh, Waits, Alone, Told, Blank
<1>18. Findable(x)
  BY <1>2, <1>7, <1>8, WorldFields DEF Server, Agrees, Findable
<1>19. Inv(x, 0)
  BY <1>1, <1>2, <1>8, <1>9, <1>10, <1>12, <1>13, <1>16, <1>17, <1>18
     DEF Inv, Base, Sound, Server, Agrees
<1> QED
  BY <1>1, <1>8, <1>19, BecomesIs DEF x, g, l

\* The end of the loop is asked for.
LEMMA StopKeeps ==
    ASSUME PendingInv, Stop
    PROVE  PendingInv'
<1> DEFINE l == Quit(loop)
           x == [World EXCEPT !.loop = l]
<1>1. ~crashed /\ Becomes(x)
  BY WorldFields DEF Stop, Inside
<1>2. /\ World \in Worlds /\ Filled(World) /\ Sound(World) /\ Server(World, 0)
      /\ (prompt => ~stray) /\ loop \in Loops
  BY <1>1, InvIs
<1>3. /\ l \in Loops /\ l.batch = loop.batch /\ l.terminate
      /\ l.returned = loop.returned /\ l.list = loop.list
  BY <1>2 DEF Quit, Loops
<1> HIDE DEF l
<1>4. /\ x \in Worlds /\ x.loop = l /\ x.inside = inside /\ x.db = db
      /\ x.gatt = gatt /\ x.crashed = crashed /\ x.done = done
      /\ x.answers = answers /\ x.stray = stray /\ x.prompt = prompt
  BY <1>2, <1>3, WorldFields DEF Worlds
<1> HIDE DEF x
<1>5. Counted(x) /\ Filled(x) /\ Timers(x)
  BY <1>2, <1>3, <1>4, WorldFields DEF Sound, Counted, Filled, Timers
<1>6. Turns(l) = Turns(loop)
  BY <1>3 DEF Turns
<1>7. Rounds(x)
  BY <1>2, <1>3, <1>4, <1>6, WorldFields DEF Sound, Rounds
<1>8. Prompt(x)
  BY <1>2, <1>3, <1>4, <1>6, WorldFields DEF Sound, Prompt
<1>9. Server(x, 0)
  BY <1>2, <1>4, WorldFields
     DEF Server, Agrees, Fresh, Blank, Slots, Held, Loose, Waits, Alone, Told, Findable
<1>10. Inv(x, 0)
  BY <1>1, <1>2, <1>4, <1>5, <1>7, <1>8, <1>9 DEF Inv, Base, Sound
<1> QED
  BY <1>1, <1>4, <1>10, BecomesIs DEF x, l

\* A callback returns.
LEMMA LeaveKeeps ==
    ASSUME PendingInv, Leave
    PROVE  PendingInv'
<1> DEFINE pr == prompt /\ db.queued = {}
           y == [World EXCEPT !.prompt = pr]
           x == [y EXCEPT !.inside = None]
<1>1. ~crashed /\ ~loop.returned
  BY DEF Leave, Inside
<1>2. /\ World \in Worlds /\ Filled(World) /\ Sound(World) /\ Server(World, 0)
      /\ (prompt => ~stray)
  BY <1>1, InvIs
<1>3. pr \in BOOLEAN /\ (pr <=> (prompt /\ db.queued = {}))
  BY <1>2, WorldIs, WorldFields
<1> HIDE DEF pr
<1>4. /\ y \in Worlds /\ y.loop = loop /\ y.inside = inside /\ y.db = db
      /\ y.gatt = gatt /\ y.crashed = crashed /\ y.done = done
      /\ y.answers = answers /\ y.stray = stray /\ y.prompt = pr
  BY <1>2, <1>3, WorldFields DEF Worlds
<1> HIDE DEF y
<1>5. Counted(y) /\ Filled(y) /\ Timers(y) /\ Rounds(y)
  BY <1>2, <1>4, WorldFields DEF Sound, Counted, Filled, Timers, Rounds
<1>6. Prompt(y)
  BY <1>2, <1>3, <1>4, WorldFields DEF Sound, Prompt
<1>7. Server(y, 0)
  BY <1>2, <1>4, WorldFields
     DEF Server, Agrees, Fresh, Blank, Slots, Held, Loose, Waits, Alone, Told, Findable
<1>8. Inv(y, 0)
  BY <1>1, <1>2, <1>3, <1>4, <1>5, <1>6, <1>7 DEF Inv, Base, Sound
<1>9. Inv(x, 0)
  BY <1>1, <1>3, <1>4, <1>8, InsideKeeps
<1>10. /\ x \in Worlds /\ x.loop = loop /\ x.inside = None /\ x.db = db
       /\ x.gatt = gatt /\ x.crashed = crashed /\ x.done = done
       /\ x.answers = answers /\ x.stray = stray /\ x.prompt = pr
  BY <1>4 DEF Worlds
<1> HIDE DEF x
<1>11. Becomes(x)
  BY <1>10 DEF Leave, Becomes, pr
<1> QED
  BY <1>9, <1>10, <1>11, BecomesIs

\* The loop before the first descriptor.
LEMMA NewLoopIs ==
    /\ NewLoop \in Loops /\ NewLoop.batch = <<>>
    /\ ~NewLoop.terminate /\ ~NewLoop.returned
    /\ \A n \in Numbers : NewLoop.list[n] \notin Ids
<1>1. /\ NewLoop \in Loops /\ NewLoop.batch = <<>>
      /\ NewLoop.terminate = FALSE /\ NewLoop.returned = FALSE
      /\ NewLoop.list = [n \in Numbers |-> Free]
  BY DEF NewLoop, Loops, Owners
<1> QED
  BY <1>1, PendingNames

\* A descriptor of the bearer's or of the owner's is no timer.
LEMMA NoTimerAdded ==
    ASSUME NEW l \in Loops, NEW x \in {Io, Owner}, l.batch = <<>>,
           ~l.terminate, ~l.returned, \A m \in Numbers : l.list[m] \notin Ids
    PROVE  /\ AddFd(l, x) \in Loops /\ AddFd(l, x).batch = <<>>
           /\ ~AddFd(l, x).terminate /\ ~AddFd(l, x).returned
           /\ \A n \in Numbers : AddFd(l, x).list[n] \notin Ids
<1>1. x \in Owners /\ x \notin Ids
  BY PendingNames DEF Owners
<1>2. /\ AddFd(l, x) \in Loops /\ AddFd(l, x).batch = l.batch
      /\ AddFd(l, x).list = [l.list EXCEPT ![LowestFree(l)] = x]
      /\ AddFd(l, x).terminate = l.terminate
      /\ AddFd(l, x).returned = l.returned
  BY <1>1, AddFdIs
<1>3. l.list \in [Numbers -> Owners]
  BY DEF Loops
<1> QED
  BY <1>1, <1>2, <1>3

\* At first nothing is asked.
LEMMA InitKeeps ==
    ASSUME Init
    PROVE  PendingInv
<1>1. /\ loop \in Loops /\ loop.batch = <<>> /\ ~loop.terminate /\ ~loop.returned
      /\ \A n \in Numbers : loop.list[n] \notin Ids
  <2>1. PICK l \in {NewLoop, AddFd(NewLoop, Owner)} : loop = AddFd(AddFd(l, Owner), Io)
    BY DEF Init
  <2> DEFINE quiet(m) == /\ m \in Loops /\ m.batch = <<>> /\ ~m.terminate /\ ~m.returned
                         /\ \A n \in Numbers : m.list[n] \notin Ids
  <2>2. quiet(NewLoop)
    BY NewLoopIs
  <2>3. \A m : \A x \in {Io, Owner} : quiet(m) => quiet(AddFd(m, x))
    BY NoTimerAdded
  <2> HIDE DEF quiet
  <2>4. quiet(l)
    BY <2>1, <2>2, <2>3
  <2>5. quiet(loop)
    BY <2>1, <2>3, <2>4
  <2> QED
    BY <2>5 DEF quiet
<1>2. /\ db = [pending |-> [i \in Ids |-> Unused], queued |-> {}, next |-> 1,
               alive |-> Attrs]
      /\ gatt = [server |-> 1, slot |-> [read |-> None, write |-> None],
                 op |-> [i \in Ids |-> NoOp]]
      /\ inside = None /\ crashed = FALSE /\ stray = FALSE /\ prompt = TRUE
      /\ done = [i \in Ids |-> 0] /\ answers = [i \in Ids |-> 0]
  BY DEF Init
<1>3. /\ db.pending = [i \in Ids |-> Unused] /\ db.queued = {} /\ db.next = 1
      /\ db.alive = Attrs /\ db \in Dbs
  <2>1. Unused \in Pendings /\ 1 \in 1 .. MaxPending + 1
    BY LoopConstants, PendingConstants DEF Unused, Pendings
  <2> QED
    BY <1>2, <2>1 DEF Dbs
<1>4. /\ gatt.server = 1 /\ \A s \in SlotNames : gatt.slot[s] = None
      /\ \A q \in Ids : gatt.op[q] = NoOp
      /\ gatt \in Gatts
  <2>1. NoOp \in Ops /\ 1 \in 0 .. MaxServers
    BY PendingConstants DEF NoOp, Ops, Kinds
  <2>2. /\ gatt.server = 1 /\ gatt.slot = [read |-> None, write |-> None]
        /\ gatt.op = [i \in Ids |-> NoOp]
    BY <1>2
  <2>3. gatt.op \in [Ids -> Ops]
    BY <2>1, <2>2
  <2>4. /\ gatt.slot \in [SlotNames -> Ids \cup {None}]
        /\ \A s \in SlotNames : gatt.slot[s] = None
    BY <2>2 DEF SlotNames
  <2>5. gatt = [server |-> gatt.server, slot |-> gatt.slot, op |-> gatt.op]
    BY <1>2
  <2> QED
    BY <2>1, <2>2, <2>3, <2>4, <2>5 DEF Gatts
<1>5. World \in Worlds
  BY <1>1, <1>2, <1>3, <1>4 DEF World, Worlds
<1>6. NoOp.kind = "none" /\ NoOp.server = 0 /\ NoOp.db_data = <<>>
  BY DEF NoOp
<1>7. Filled(World) /\ Counted(World)
  BY <1>2, <1>3, WorldFields DEF Filled, Counted, Ids
<1>8. Timers(World)
  BY <1>1, <1>3, WorldFields, LoopConstants DEF Timers
<1>9. Turns(loop) = {}
  BY <1>1 DEF Turns
<1>10. Rounds(World) /\ Prompt(World)
  BY <1>1, <1>2, <1>3, <1>9, WorldFields DEF Rounds, Prompt
<1>11. /\ Fresh(World) /\ Blank(World) /\ Slots(World) /\ Held(World) /\ Loose(World)
       /\ Told(World)
  BY <1>2, <1>3, <1>4, <1>6, WorldFields
     DEF Fresh, Blank, Slots, Held, Loose, Told, Slotted, Raw
<1>12. Waits(World, 0) /\ Alone(World, 0)
  <2>1. 0 \notin Ids
    BY DEF Ids
  <2> QED
    BY <1>3, <1>4, <1>6, <2>1, WorldFields DEF Waits, Alone
<1>13. Findable(World)
  <2>1. Len(<<>>) = 0
    OBVIOUS
  <2> QED
    BY <1>4, <1>6, <2>1, WorldFields DEF Findable
<1> QED
  BY <1>2, <1>5, <1>7, <1>8, <1>10, <1>11, <1>12, <1>13, WorldFields
     DEF PendingInv, Inv, Base, Sound, Server, Agrees

----------------------------------------------------------------------------
(* The theorems *)

\* Every step keeps the invariant.
LEMMA NextKeeps ==
    ASSUME PendingInv, [Next]_vars
    PROVE  PendingInv'
<1>1. CASE Next
  <2>1. CASE Wait
    BY <2>1, WaitKeeps
  <2>2. CASE WildEvent
    BY <2>2, WildEventKeeps
  <2>3. ASSUME NEW p \in Ids, Expire(p) PROVE PendingInv'
    BY <2>3, ExpireStep
  <2>4. CASE Requests
    BY <2>4, RequestsKeep
  <2>5. CASE Disconnect
    BY <2>5, DisconnectKeeps
  <2>6. CASE OtherEvent
    BY <2>6, OtherEventKeeps
  <2>7. CASE Return
    BY <2>7, ReturnKeeps
  <2>8. ASSUME NEW p \in Ids, Answer(p) PROVE PendingInv'
    BY <2>8, AnswerKeeps
  <2>9. ASSUME NEW a \in Attrs, Destroy(a) PROVE PendingInv'
    BY <2>9, DestroyKeeps
  <2>10. CASE FreeServer
    BY <2>10, FreeServerKeeps
  <2>11. ASSUME NEW k \in 2 .. MaxServers, Connect(k) PROVE PendingInv'
    BY <2>11, ConnectKeeps
  <2>12. CASE Stop
    BY <2>12, StopKeeps
  <2>13. CASE Leave
    BY <2>13, LeaveKeeps
  <2> QED
    BY <1>1, <2>1, <2>2, <2>3, <2>4, <2>5, <2>6, <2>7, <2>8, <2>9, <2>10,
       <2>11, <2>12, <2>13 DEF Next
<1>2. CASE UNCHANGED vars
  <2>1. World' = World
    BY <1>2 DEF vars, history, World
  <2> QED
    BY <2>1 DEF PendingInv
<1> QED
  BY <1>1, <1>2

\* The loop, the database and the server fit together in every state: the
\* inductive invariant.
THEOREM PendingHolds == Spec => []PendingInv
<1>1. Init => PendingInv
  BY InitKeeps
<1>2. PendingInv /\ [Next]_vars => PendingInv'
  BY NextKeeps
<1> QED
  BY <1>1, <1>2, PTL DEF Spec

\* What is asked of the owner ends once, with one answer at most: the func of
\* a pending read or write is called when it leaves its queue, by the answer,
\* by the timer or because the attribute goes (pending_read_result and
\* pending_write_result of gatt-db.c).
THEOREM PendingEndsOnce == Spec => []EndsOnce
<1>1. PendingInv => EndsOnce
  <2> SUFFICES ASSUME PendingInv, ~crashed PROVE CompletedOnce /\ AnsweredOnce
    BY DEF EndsOnce, CompletedOnce, AnsweredOnce
  <2>1. Counted(World) /\ Told(World)
    BY InvIs DEF Sound, Server, Agrees
  <2>2. CompletedOnce
    BY <2>1, WorldFields DEF Counted, CompletedOnce
  <2>3. \A o \in Ids : gatt.op[o] # NoOp => gatt.op[o].kind # "none"
    BY InvIs, WorldFields DEF Server, Agrees, Blank
  <2>4. AnsweredOnce
    BY <2>1, <2>3, WorldFields DEF Told, AnsweredOnce
  <2> QED
    BY <2>2, <2>4
<1> QED
  BY <1>1, PendingHolds, PTL

\* What the invariant says of an operation that has a type.
LEMMA TypesMatch ==
    ASSUME PendingInv, World \in Worlds, Filled(World)
    PROVE  TypeOK
<1>1. /\ loop.list \in [Numbers -> Owners] /\ loop.batch \in Seq(Events)
      /\ db.queued \subseteq Ids /\ db.pending \in [Ids -> Pendings]
      /\ gatt.server \in 0 .. MaxServers /\ gatt.op \in [Ids -> Ops]
      /\ inside \in Ids \cup {None, Owner}
  BY WorldIs, WorldFields
<1>2. loop.list \in [Numbers -> Ids \cup {Free, Io, Owner}]
  BY <1>1 DEF Owners
<1>3. \A i \in DOMAIN loop.batch : loop.batch[i] \in [fd : Numbers, wild : BOOLEAN]
  <2>1. \A i \in DOMAIN loop.batch : loop.batch[i] \in Events
    BY <1>1
  <2> QED
    BY <2>1 DEF Events
<1>4. \A p \in db.queued : /\ db.pending[p].attrib \in Attrs
                           /\ db.pending[p].timeout_id \in Numbers
                           /\ db.pending[p].op \in Ids
  BY <1>1, WorldFields DEF Filled, Pendings
<1>5. gatt.op \in [Ids -> [kind : {"none"} \cup Slotted \cup Raw,
                           server : 0 .. MaxServers, db_data : {<<>>} \cup Seq(Attrs)]]
  <2>1. Ops \subseteq [kind : {"none"} \cup Slotted \cup Raw,
                       server : 0 .. MaxServers, db_data : {<<>>} \cup Seq(Attrs)]
    BY DEF Ops, Kinds
  <2> QED
    BY <1>1, <2>1
<1> QED
  BY <1>1, <1>2, <1>3, <1>4, <1>5 DEF TypeOK

\* Loop, database and server agree on what is pending: no timer outlives its
\* operation, neither the server's pointer to its pending op nor the op's
\* pointer to its server is used after it was freed (timeout_id of gatt-db.c,
\* pending_read_op and pending_write_op of gatt-server.c), and the data of a
\* Read Multiple, a Prepare Write or an Execute Write points to the server
\* there is unless the owner dropped that one too soon.
THEOREM PendingPointersMatch == Spec => []PointersMatch
<1>1. PendingInv => PointersMatch
  <2> SUFFICES ASSUME PendingInv PROVE PointersMatch
    OBVIOUS
  <2>1. TypeOK
    BY TypesMatch DEF PendingInv, Inv, Base
  <2>2. TimersMatch
    <3> SUFFICES ASSUME ~crashed, ~loop.returned PROVE TimersMatch
      BY DEF TimersMatch
    <3>1. Timers(World)
      BY InvIs DEF Sound
    <3> QED
      BY <3>1, WorldFields DEF Timers, TimersMatch
  <2>3. OpsMatch
    <3> SUFFICES ASSUME ~crashed PROVE OpsMatch
      BY DEF OpsMatch
    <3>1. /\ Slots(World) /\ Held(World) /\ Loose(World) /\ Blank(World)
          /\ Waits(World, 0)
      BY InvIs DEF Server, Agrees
    <3>2. \A s \in {"read", "write"} : gatt.slot[s] # None =>
             gatt.server # 0 /\ gatt.op[gatt.slot[s]].server = gatt.server
      BY <3>1, WorldFields DEF Slots, SlotNames
    <3>3. /\ \A o \in Ids : gatt.op[o].server # 0 /\ gatt.op[o].kind \in Slotted
                => gatt.slot[SlotOf(gatt.op[o].kind)] = o
          /\ \A o \in Ids : gatt.op[o].kind \in Raw =>
                gatt.op[o].server # 0 /\ (stray \/ gatt.op[o].server = gatt.server)
      BY <3>1, WorldFields DEF Held, Loose
    <3>4. \A o \in Ids : gatt.op[o] # NoOp <=> gatt.op[o].kind # "none"
      BY <3>1, WorldFields DEF Blank, NoOp
    <3>5. \A o \in Ids : gatt.op[o].kind # "none"
                            <=> \E p \in db.queued : db.pending[p].op = o
      <4>1. \A o \in Ids : o # 0
        BY DEF Ids
      <4> QED
        BY <3>1, <4>1, WorldFields DEF Waits
    <3> QED
      BY <3>2, <3>3, <3>4, <3>5 DEF OpsMatch
  <2> QED
    BY <2>1, <2>2, <2>3 DEF PointersMatch
<1> QED
  BY <1>1, PendingHolds, PTL

\* Freed memory is used only where the owner completes an operation whose
\* timer has its event in the same round, destroys an attribute that a Read By
\* Type has still to read, or drops the server of a pending Read Multiple,
\* Prepare Write or Execute Write; an owner that answers from the callback
\* that asks him, and does not drop the server there of such a request, uses
\* none (mainloop_remove_fd, process_read_by_type, bt_gatt_server_free).
THEOREM PendingMemorySafe == Spec => []MemorySafe
<1>1. PendingInv => MemorySafe
  <2> SUFFICES ASSUME PendingInv PROVE MemorySafe
    OBVIOUS
  <2>1. (crashed => stray) /\ (prompt => ~stray)
    BY WorldFields DEF PendingInv, Inv, Base
  <2>2. ASSUME prompt, NEW m \in Numbers, NEW n \in Numbers,
               {loop.list[m], loop.list[n]} \subseteq Ids
        PROVE  m = n
    <3>1. ~crashed /\ loop.list[m] \in Ids /\ loop.list[n] \in Ids
      BY <2>1, <2>2
    <3>2. Timers(World) /\ Prompt(World)
      BY <3>1, InvIs DEF Sound
    <3>3. ~loop.returned /\ \A p, q \in db.queued : p = q
      BY <2>2, <3>1, <3>2, WorldFields DEF Prompt
    <3>4. \A k \in Numbers : loop.list[k] \in Ids =>
             loop.list[k] \in db.queued /\ db.pending[loop.list[k]].timeout_id = k
      BY <3>2, <3>3, WorldFields DEF Timers
    <3> QED
      BY <3>1, <3>3, <3>4
  <2> QED
    BY <2>1, <2>2 DEF MemorySafe, ContractSuffices, PromptOwnersAreSafe
<1> QED
  BY <1>1, PendingHolds, PTL

=============================================================================
