---------------------------- MODULE GattPending ----------------------------
(***************************************************************************)
(* Reads and writes that the owner of an attribute does not answer at      *)
(* once: the pending_read and pending_write of gatt-db.c with their timers *)
(* in the main loop, and what gatt-server.c keeps of a request that waits  *)
(* for them: the async_read_op and async_write_op, which know the server   *)
(* and are known to it, and the data of a Read Multiple, a Prepare Write   *)
(* and an Execute Write, which point to the server unknown to it.  The     *)
(* owner may answer from the callback that asks him (as all callbacks of   *)
(* wallclock do) or later from one of his own; he may destroy the          *)
(* attribute, drop the server or end the loop meanwhile.                   *)
(*                                                                         *)
(* inside says whose code runs: None is the loop, Owner a callback of the  *)
(* owner, a pending id the read_func or write_func for it.                 *)
(***************************************************************************)
EXTENDS Mainloop, FiniteSets

CONSTANTS
    Attrs,       \* attributes with a read_func and a write_func
    Lists,       \* the lists a Read By Type, Read Multiple or Execute Write may
                 \* go through
    MaxPending,  \* bound: pending_read and pending_write that are made
    MaxServers,  \* bound: servers, one after the other
    Io, Owner,   \* what the table holds for the bearer and for the owner
    None

ASSUME PendingConstants == MaxPending \in Nat \ {0} /\ MaxServers \in Nat \ {0}
ASSUME ListsAssumption == Lists \subseteq Seq(Attrs) \ {<<>>}

VARIABLES
    loop,     \* the main loop
    db,       \* pending[i]: attrib, kind, timeout_id, user_data; queued; alive
    gatt,     \* server 0 is none; its pending ops; op[i]: kind, server, db_data
              \* (what is still to be read or written for it)
    inside,
    crashed,  \* freed memory was used
    done,     \* history: how often the func of a pending was called
    answers,  \* history: responses to the request of an op
    stray,    \* history: the owner did what is not safe
    prompt    \* history: he answered what he was asked before he returned,
              \* and destroyed no attribute before he had, nor the server
              \* of a request it does not know of

history == <<done, answers, stray, prompt>>
vars == <<loop, db, gatt, inside, crashed, history>>

Ids == 1 .. MaxPending

ASSUME PendingNames ==
    /\ \A x \in {Free, Io, Owner, None} : x \notin Ids
    /\ Io # Free /\ Owner # Free /\ Owner # None

Unused == [attrib |-> None, kind |-> "none", timeout_id |-> 0, op |-> None]
NoOp == [kind |-> "none", server |-> 0, db_data |-> <<>>]

World == [loop |-> loop, db |-> db, gatt |-> gatt, inside |-> inside,
          crashed |-> crashed, done |-> done, answers |-> answers,
          stray |-> stray, prompt |-> prompt]

Becomes(world) == \E w \in {world} :
    /\ loop' = w.loop /\ db' = w.db /\ gatt' = w.gatt /\ inside' = w.inside
    /\ crashed' = w.crashed /\ done' = w.done /\ answers' = w.answers
    /\ stray' = w.stray /\ prompt' = w.prompt

Init ==
    \* the owner has one descriptor or two
    /\ \E l \in {NewLoop, AddFd(NewLoop, Owner)} : loop = AddFd(AddFd(l, Owner), Io)
    /\ db = [pending |-> [i \in Ids |-> Unused], queued |-> {}, next |-> 1,
             alive |-> Attrs]
    /\ gatt = [server |-> 1, slot |-> [read |-> None, write |-> None],
               op |-> [i \in Ids |-> NoOp]]
    /\ inside = None /\ crashed = FALSE /\ stray = FALSE /\ prompt = TRUE
    /\ done = [i \in Ids |-> 0] /\ answers = [i \in Ids |-> 0]

\* The requests the server has a pointer to, one that reads and one that
\* writes, and those it does not know of
Slotted == {"read", "by_type", "write", "cmd"}
Raw == {"multiple", "prepare", "execute"}
SlotOf(kind) == IF kind \in {"write", "cmd", "prepare", "execute"}
                THEN "write" ELSE "read"

----------------------------------------------------------------------------
(* Functions of a world                                                    *)

\* gatt_db_attribute_read and _write: a timer, the queue, then the owner
Asked(w, a, kind, op) ==
    LET p == w.db.next
        pending == [attrib |-> a, kind |-> kind, timeout_id |-> TimerId(w.loop), op |-> op]
    IN [w EXCEPT !.loop = TimerAdded(@, p),
                 !.db = [w.db EXCEPT !.pending = [@ EXCEPT ![p] = pending],
                                     !.queued = @ \cup {p}, !.next = p + 1],
                 !.inside = p]

\* async_read_op_destroy, async_write_op_destroy, and
\* read_multiple_resp_data_free, which tells nobody
OpDestroyed(w, o) ==
    [w EXCEPT !.gatt = [w.gatt EXCEPT !.op = [@ EXCEPT ![o] = NoOp],
                  !.slot = IF w.gatt.op[o].server = 0 \/ w.gatt.op[o].kind \in Raw
                           THEN @
                           ELSE [@ EXCEPT ![SlotOf(w.gatt.op[o].kind)] = None]]]

\* bt_att_send or bt_att_send_error_rsp, and the op is over
Answered(w, o) == OpDestroyed([w EXCEPT !.answers = [w.answers EXCEPT ![o] = @ + 1]], o)

Crashed(w) == [w EXCEPT !.crashed = TRUE]

\* read_complete_cb, write_complete_cb, read_by_type_read_complete_cb with
\* process_read_by_type, read_multiple_complete_cb, prep_write_complete_cb,
\* exec_write_complete_cb with exec_next_prep_write. full says that the PDU
\* takes no more, or that another Execute Write emptied the queue. A Read By
\* Type keeps the attributes it has found, the others look them up by handle.
Completed(w, o, err, full) ==
    LET op == w.gatt.op[o] IN
    CASE op.server = 0 -> OpDestroyed(w, o)
      [] op.server # 0 /\ op.server # w.gatt.server -> Crashed(w)
      [] op.server # 0 /\ op.server = w.gatt.server ->
           IF op.kind = "cmd" THEN OpDestroyed(w, o)
           ELSE IF err \/ full \/ op.db_data = <<>> THEN Answered(w, o)
           ELSE IF Head(op.db_data) \notin w.db.alive
           THEN IF op.kind = "by_type" THEN Crashed(w) ELSE Answered(w, o)
           ELSE LET rest == [op EXCEPT !.db_data = Tail(@)]
                IN Asked([w EXCEPT !.gatt = [w.gatt EXCEPT !.op = [@ EXCEPT ![o] = rest]]],
                         Head(op.db_data), SlotOf(op.kind), o)

\* pending_read_result, pending_write_result of what has left its queue
Result(w, p, err, full) ==
    LET id == w.db.pending[p].timeout_id
        removed == [w EXCEPT !.loop = TimerRemoved(@, id),
                             !.stray = @ \/ (id # 0 /\ FreesEvent(w.loop, id)),
                             !.db = [w.db EXCEPT !.pending = [@ EXCEPT ![p] = Unused]],
                             !.done = [w.done EXCEPT ![p] = @ + 1]]
    IN Completed(removed, w.db.pending[p].op, err, full)

\* Mutant of Dequeued: what was completed stays in its queue
StaysQueued(w, p) == w

Dequeued(w, p) == [w EXCEPT !.db = [w.db EXCEPT !.queued = @ \ {p}]]

\* read_timeout, write_timeout: the timer is being handled, it is not removed
TimerForgotten(w, p) ==
    LET pending == [w.db.pending[p] EXCEPT !.timeout_id = 0]
    IN [w EXCEPT !.db = [w.db EXCEPT !.pending = [@ EXCEPT ![p] = pending]]]

\* pending_read_free, pending_write_free: the func is told of an error
Cancelled(w, a, kind, p) ==
    IF /\ ~w.crashed /\ p \in w.db.queued
       /\ w.db.pending[p].attrib = a /\ w.db.pending[p].kind = kind
    THEN Result(Dequeued(w, p), p, TRUE, FALSE) ELSE w

\* queue_destroy: what is queued of a kind, in its order
AllCancelled(w, a, kind) ==
    LET upTo[p \in 0 .. MaxPending] ==
            IF p = 0 THEN w ELSE Cancelled(upTo[p - 1], a, kind, p)
    IN upTo[MaxPending]

\* attribute_destroy: the reads, then the writes
Destroyed(w, a) ==
    LET v == AllCancelled(AllCancelled(w, a, "read"), a, "write")
    IN [v EXCEPT !.db = [v.db EXCEPT !.alive = @ \ {a}],
                 \* a Read By Type still holds the attribute in its list
                 !.stray = @ \/ \E o \in Ids : /\ v.gatt.op[o].kind = "by_type"
                                               /\ a \in ToSet(v.gatt.op[o].db_data)]

\* Mutant of ServerFreed: pending ops keep their pointer to the server
OpsForgotten(w) ==
    [w EXCEPT !.gatt = [w.gatt EXCEPT !.server = 0,
                  !.slot = [read |-> None, write |-> None]]]

\* requests that would use a server that is freed
Dangling(w) == \E o \in Ids : w.gatt.op[o].kind \in Raw

\* bt_gatt_server_free
ServerFreed(w) ==
    [w EXCEPT !.gatt = [w.gatt EXCEPT !.server = 0,
                  !.slot = [read |-> None, write |-> None],
                  !.op = [o \in Ids |-> IF o \in {w.gatt.slot.read, w.gatt.slot.write}
                                        THEN [w.gatt.op[o] EXCEPT !.server = 0]
                                        ELSE w.gatt.op[o]]],
              !.stray = @ \/ Dangling(w),
              !.prompt = @ /\ ~Dangling(w)]

----------------------------------------------------------------------------
(* The loop                                                                *)

Wait ==
    /\ ~crashed /\ inside = None /\ Waiting(loop)
    /\ \E b \in Batches({n \in Numbers : loop.list[n] # Free}) :
          loop' = [loop EXCEPT !.batch = b]
    /\ UNCHANGED <<db, gatt, inside, crashed, history>>

\* the first event of the round is for this owner, and goes to his callback
Event(owner) ==
    /\ ~crashed /\ inside = None /\ loop.batch # <<>>
    /\ ~loop.batch[1].wild /\ loop.list[loop.batch[1].fd] = owner

Over == [World EXCEPT !.loop = NextEvent(@)]

\* the callback of an event that has been freed is called
WildEvent ==
    /\ ~crashed /\ inside = None /\ loop.batch # <<>> /\ loop.batch[1].wild
    /\ Becomes(Crashed(Over))

\* timeout_callback of timeout-mainloop.c: the function, then the timer goes
Expire(p) ==
    /\ Event(p)
    /\ LET w == Result(TimerForgotten(Dequeued(Over, p), p), p, TRUE, FALSE)
           n == loop.batch[1].fd
       IN Becomes(IF ~w.crashed /\ w.loop.list[n] = p
                  THEN [w EXCEPT !.loop = Removed(@, n)] ELSE Crashed(w))

\* a request of the peer: read_cb, read_blob_cb, read_by_type_cb, write_cb,
\* one of which is refused with UNLIKELY if it finds its kind busy, or
\* read_multiple_cb, prep_write_cb, exec_write_cb, for which nothing is busy
Request(kind, attrs) ==
    /\ Event(Io) /\ gatt.server # 0 /\ db.next \in Ids
    /\ kind \in Slotted => gatt.slot[SlotOf(kind)] = None
    /\ LET o == db.next
           op == [kind |-> kind, server |-> gatt.server, db_data |-> Tail(attrs)]
           w == [Over EXCEPT !.gatt = [gatt EXCEPT !.op = [@ EXCEPT ![o] = op],
                                             !.slot = IF kind \in Raw THEN @
                                                      ELSE [@ EXCEPT ![SlotOf(kind)] = o]]]
       IN Becomes(Asked(w, Head(attrs), SlotOf(kind), o))

\* a Read By Type finds what exists, the others look for an attribute of their
\* list only when those before it are over
Requests ==
    \/ \E kind \in {"read", "write", "cmd", "prepare"}, a \in db.alive :
           Request(kind, <<a>>)
    \/ \E kind \in {"by_type", "multiple", "execute"}, list \in Lists :
           /\ Head(list) \in db.alive
           /\ kind = "by_type" => ToSet(list) \subseteq db.alive
           /\ Request(kind, list)

\* the bearer has been disconnected: its io goes, the owner is told
Disconnect ==
    /\ Event(Io)
    /\ Becomes([Over EXCEPT !.inside = Owner, !.loop = Removed(NextEvent(loop), loop.batch[1].fd)])

\* an event of the owner's, or one of the bearer that nothing is asked for
OtherEvent ==
    \/ Event(Owner) /\ Becomes([Over EXCEPT !.inside = Owner])
    \/ Event(Io) /\ Becomes(Over)

\* the end of mainloop_run; the owner goes on behind it
Return ==
    /\ ~crashed /\ inside = None /\ loop.batch = <<>> /\ loop.terminate /\ ~loop.returned
    /\ Becomes([World EXCEPT !.loop = Cleared(@), !.inside = Owner])

----------------------------------------------------------------------------
(* The owner of the attributes                                             *)

Inside == ~crashed /\ inside # None

\* gatt_db_attribute_read_result, gatt_db_attribute_write_result
Answer(p) ==
    /\ Inside /\ p \in db.queued
    /\ \E err, full \in BOOLEAN :
        /\ db.next \notin Ids => full
        /\ LET w == Result(Dequeued(World, p), p, err, full)
           IN Becomes(IF p = inside /\ w.inside = p THEN [w EXCEPT !.inside = Owner] ELSE w)

\* gatt_db_remove_service, gatt_db_clear, gatt_db_unref
Destroy(a) ==
    /\ Inside /\ a \in db.alive
    /\ Becomes([Destroyed(World, a) EXCEPT !.prompt = @ /\ db.queued = {}])

FreeServer == Inside /\ gatt.server # 0 /\ Becomes(ServerFreed(World))

\* a client connects and gets a bearer and a server
Connect(k) ==
    /\ inside = Owner /\ ~crashed /\ ~loop.returned
    /\ gatt.server = 0 /\ Fits(loop) /\ \A n \in Numbers : loop.list[n] # Io
    /\ k \in 2 .. MaxServers /\ \A o \in Ids : gatt.op[o].server < k
    /\ Becomes([World EXCEPT !.gatt = [gatt EXCEPT !.server = k], !.loop = AddFd(@, Io)])

Stop == Inside /\ ~loop.terminate /\ Becomes([World EXCEPT !.loop = Quit(@)])

\* the callback returns; behind the loop the owner stops when all is gone
Leave ==
    /\ Inside /\ ~loop.returned
    /\ inside' = None /\ prompt' = (prompt /\ db.queued = {})
    /\ UNCHANGED <<loop, db, gatt, crashed, done, answers, stray>>

Next ==
    \/ Wait \/ WildEvent \/ \E p \in Ids : Expire(p)
    \/ Requests \/ Disconnect \/ OtherEvent \/ Return
    \/ \E p \in Ids : Answer(p)
    \/ \E a \in Attrs : Destroy(a)
    \/ FreeServer \/ (\E k \in 2 .. MaxServers : Connect(k)) \/ Stop \/ Leave

Spec == Init /\ [][Next]_vars

\* The callbacks return and the loop runs; a timer expires, and epoll does not
\* pass over its descriptor for ever.
Reports(p) == Wait /\ \E i \in DOMAIN loop'.batch : loop.list[loop'.batch[i].fd] = p
Fairness ==
    /\ WF_vars(Leave) /\ WF_vars(Wait)
    /\ \A p \in Ids : SF_vars(Reports(p))
    /\ WF_vars(WildEvent \/ Disconnect \/ OtherEvent \/ \E p \in Ids : Expire(p))
FairSpec == Spec /\ Fairness

----------------------------------------------------------------------------
(* Properties                                                              *)

TypeOK ==
    /\ loop.list \in [Numbers -> Ids \cup {Free, Io, Owner}]
    /\ \A i \in DOMAIN loop.batch : loop.batch[i] \in [fd : Numbers, wild : BOOLEAN]
    /\ \A p \in db.queued : /\ db.pending[p].attrib \in Attrs
                            /\ db.pending[p].timeout_id \in Numbers
                            /\ db.pending[p].op \in Ids
    /\ gatt.server \in 0 .. MaxServers
    /\ gatt.op \in [Ids -> [kind : {"none"} \cup Slotted \cup Raw,
                            server : 0 .. MaxServers, db_data : {<<>>} \cup Seq(Attrs)]]
    /\ inside \in Ids \cup {None, Owner}

\* The func of a pending read or write is called once, when it leaves its
\* queue: by the answer, by the timer or because the attribute goes, whichever
\* comes first; a later one finds nothing (gatt-db.c:1739, gatt-db.c:1782).
CompletedOnce ==
    ~crashed => \A p \in Ids : done[p] = IF p < db.next /\ p \notin db.queued THEN 1 ELSE 0

\* A timer of the loop belongs to an operation that is still pending and knows
\* it by its number: none outlives its operation, and a number that is given
\* out again is not taken for the old timer (timeout_id = 0 at gatt-db.c:1715).
TimersMatch ==
    ~crashed /\ ~loop.returned =>
        /\ \A n \in Numbers : loop.list[n] \in Ids =>
              loop.list[n] \in db.queued /\ db.pending[loop.list[n]].timeout_id = n
        /\ \A p \in db.queued :
              db.pending[p].timeout_id # 0 => loop.list[db.pending[p].timeout_id] = p

\* The server's pointer to a pending read or write and its pointer to the
\* server agree, so neither is used after it was freed (gatt-server.c:137,
\* :322); a Read Multiple, Prepare or Execute Write has the second only, and
\* keeps it when the server is gone. An op is there as long as something is
\* pending for it.
OpsMatch ==
    ~crashed =>
        /\ \A s \in {"read", "write"} : gatt.slot[s] # None =>
              gatt.server # 0 /\ gatt.op[gatt.slot[s]].server = gatt.server
        /\ \A o \in Ids : gatt.op[o].server # 0 /\ gatt.op[o].kind \in Slotted
              => gatt.slot[SlotOf(gatt.op[o].kind)] = o
        /\ \A o \in Ids : gatt.op[o].kind \in Raw =>
              gatt.op[o].server # 0 /\ (stray \/ gatt.op[o].server = gatt.server)
        /\ \A o \in Ids : gatt.op[o] # NoOp
              <=> \E p \in db.queued : db.pending[p].op = o

\* A request is answered once at most, and not before what it waits for is
\* completed: one by one, if it reads or writes several attributes.
AnsweredOnce ==
    ~crashed => \A o \in Ids : /\ answers[o] <= 1
                               /\ gatt.op[o] # NoOp => answers[o] = 0

\* What is asked of the owner ends once, with one answer at most.
EndsOnce == CompletedOnce /\ AnsweredOnce

\* Loop, database and server agree on what is pending.
PointersMatch == TypeOK /\ TimersMatch /\ OpsMatch

\* Freed memory is used only if the owner completes an operation whose timer
\* has its event in the same round of the loop (mainloop.c:152), destroys an
\* attribute that a Read By Type has still to read (gatt-server.c:448), or
\* drops the server while a Read Multiple, a Prepare Write or an Execute Write
\* is pending, which bt_gatt_server_free does not know of (gatt-server.c:137).
ContractSuffices == crashed => stray

\* An owner that answers from the callback that asks him, as those of wallclock
\* do, is safe in any order of events, also if he ends the loop there, or drops
\* the server and what he was asked is no case of the three; and at most one
\* timer is ever registered.
PromptOwnersAreSafe ==
    prompt => /\ ~crashed
              /\ \A m, n \in Numbers : {loop.list[m], loop.list[n]} \subseteq Ids => m = n

\* No freed memory is used but in the three cases named.
MemorySafe == ContractSuffices /\ PromptOwnersAreSafe

\* What has a timer does not stay pending, whoever forgets to answer.
Settles ==
    \A p \in Ids : (p \in db.queued /\ db.pending[p].timeout_id # 0)
                     ~> (p \notin db.queued \/ crashed \/ loop.terminate)
=============================================================================
