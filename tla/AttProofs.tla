----------------------------- MODULE AttProofs -----------------------------
(***************************************************************************)
(* Proofs about Att. Each map from a bearer to a bearer has a lemma that   *)
(* says what it preserves; the proof of an action composes those lemmas in *)
(* the order in which the handler composes the maps.                       *)
(*                                                                         *)
(* First the types and the sequential requests. Then the ops: their order, *)
(* their hooks, the one slot for what is on the air, and the wakeups of    *)
(* the writer. An op leaves the queues before its callback runs, and the   *)
(* callback may send and cancel other ops before the op is destroyed. So   *)
(* that invariant has two parameters: the ops a handler has in its hands,  *)
(* in no queue any more, and the id of the op whose callback has run.      *)
(*                                                                         *)
(* Last the answers to the peer. Ids are enough for all of them, so that   *)
(* bt_att_send never refuses one, and each answer that is owed has one way *)
(* to the peer: a handler or a queued response.                            *)
(***************************************************************************)
EXTENDS Att, TLAPS, SequenceTheorems, FiniteSetTheorems

-----------------------------------------------------------------------------
(* Numbers and sequences *)

\* What RemoveAt leaves, element by element.
LEMMA RemoveAtElements ==
    ASSUME NEW S, NEW q \in Seq(S), NEW i \in DOMAIN q
    PROVE  /\ RemoveAt(q, i) \in Seq(S)
           /\ DOMAIN RemoveAt(q, i) = 1 .. Len(q) - 1
           /\ \A k \in 1 .. Len(q) - 1 :
                 RemoveAt(q, i)[k] = IF k < i THEN q[k] ELSE q[k + 1]
<1> DEFINE l == SubSeq(q, 1, i - 1)
           r == SubSeq(q, i + 1, Len(q))
           n == RemoveAt(q, i)
<1>1. DOMAIN q = 1 .. Len(q) /\ Len(q) \in Nat /\ i \in 1 .. Len(q)
  BY LenProperties
<1>2. /\ l \in Seq(S) /\ Len(l) = i - 1
      /\ \A k \in 1 .. i - 1 : l[k] = q[k]
  BY <1>1, SubSeqProperties, ElementOfSeq
<1>3. /\ r \in Seq(S) /\ Len(r) = Len(q) - i
      /\ \A k \in 1 .. Len(q) - i : r[k] = q[k + i]
  BY <1>1, SubSeqProperties, ElementOfSeq
<1>4. n = l \o r
  BY DEF RemoveAt
<1> HIDE DEF l, r, n
<1>5. /\ n \in Seq(S) /\ Len(n) = Len(l) + Len(r)
      /\ \A k \in 1 .. Len(l) + Len(r) :
            n[k] = IF k <= Len(l) THEN l[k] ELSE r[k - Len(l)]
  BY <1>2, <1>3, <1>4, ConcatProperties
<1>6. DOMAIN n = 1 .. Len(q) - 1
  BY <1>1, <1>2, <1>3, <1>5, LenProperties
<1>7. ASSUME NEW k \in DOMAIN n
      PROVE  n[k] = IF k < i THEN q[k] ELSE q[k + 1]
  <2>1. k \in 1 .. Len(l) + Len(r)
    BY <1>1, <1>2, <1>3, <1>6
  <2>2. n[k] = IF k <= i - 1 THEN l[k] ELSE r[k - (i - 1)]
    BY <2>1, <1>2, <1>5
  <2>3. CASE k < i
    BY <2>1, <2>2, <2>3, <1>1, <1>2
  <2>4. CASE k >= i
    <3>1. k - (i - 1) \in 1 .. Len(q) - i
      BY <2>4, <1>1, <1>6
    <3>2. k - (i - 1) + i = k + 1
      BY <1>1, <1>6
    <3>3. r[k - (i - 1)] = q[k - (i - 1) + i]
      BY <3>1, <1>3
    <3>4. ~(k <= i - 1) /\ ~(k < i)
      BY <2>4, <1>1, <1>6
    <3> QED
      BY <2>2, <3>2, <3>3, <3>4
  <2> QED
    BY <2>3, <2>4, <1>1, <1>6
<1> QED
  BY <1>5, <1>6, <1>7 DEF n

-----------------------------------------------------------------------------
(* Types *)

LEMMA OpSets ==
    /\ ReqOp \subseteq Op /\ IndOp \subseteq Op /\ WriteOp \subseteq Op
    /\ \A op \in Op : /\ op.type = "REQ" => op \in ReqOp
                      /\ op.type = "IND" => op \in IndOp
                      /\ op.type \notin Elicits => op \in WriteOp
    /\ \A op \in ReqOp : op.type = "REQ"
    /\ \A op \in IndOp : op.type = "IND"
    /\ None \notin Op
BY NoneAssumption, Zenon DEF Op, ReqOp, IndOp, WriteOp, OpOf, OpType, Elicits

LEMMA FatedType ==
    ASSUME NEW a \in Att, NEW id \in Ids, NEW f \in Fate
    PROVE  Fated(a, id, f) \in Att
<1>1. [a.fate EXCEPT ![id] = f] \in [Ids -> Fate]
  BY DEF Att
<1> QED
  BY <1>1 DEF Fated, Att

LEMMA CallbackType ==
    ASSUME NEW a \in Att, NEW op \in Op
    PROVE  Callback(a, op) \in Att
<1>1. op.id \in Ids /\ a.fate[op.id] \in Fate
  BY DEF Att, Op, OpOf
<1>2. AfterCallback[a.fate[op.id]] \in Fate
  BY <1>1 DEF AfterCallback, Fate
<1> QED
  BY <1>1, <1>2, FatedType DEF Callback

LEMMA DestroyType ==
    ASSUME NEW a \in Att, NEW op \in Op
    PROVE  Destroy(a, op) \in Att
<1>1. op.id \in Ids /\ a.fate[op.id] \in Fate
  BY DEF Att, Op, OpOf
<1>2. AfterDestroy[a.fate[op.id]] \in Fate
  BY <1>1 DEF AfterDestroy, Fate
<1> QED
  BY <1>1, <1>2, FatedType DEF Destroy

LEMMA StrippedType ==
    ASSUME NEW types, NEW op \in OpOf(types)
    PROVE  Stripped(op) \in OpOf(types)
BY DEF Stripped, OpOf

LEMMA WakeupWriterType ==
    ASSUME NEW a \in Att
    PROVE  WakeupWriter(a) \in Att
BY DEF WakeupWriter, Att

LEMMA PushType ==
    ASSUME NEW a \in Att, NEW op \in Op
    PROVE  Push(a, op) \in Att
<1>1. CASE op.type = "REQ"
  <2>1. Append(a.req_queue, op) \in Seq(ReqOp)
    BY <1>1, OpSets DEF Att
  <2> QED
    BY <1>1, <2>1, Zenon DEF Push, Att
<1>2. CASE op.type = "IND"
  <2>1. Append(a.ind_queue, op) \in Seq(IndOp)
    BY <1>2, OpSets DEF Att
  <2> QED
    BY <1>2, <2>1, Zenon DEF Push, Att
<1>3. CASE op.type \notin Elicits
  <2>1. Append(a.write_queue, op) \in Seq(WriteOp)
    BY <1>3, OpSets DEF Att
  <2>2. Push(a, op) = [a EXCEPT !.write_queue = Append(@, op)]
    BY <1>3 DEF Push, Elicits
  <2> QED
    BY <2>1, <2>2, Zenon DEF Att
<1> QED
  BY <1>1, <1>2, <1>3 DEF Elicits

LEMMA SendType ==
    ASSUME NEW a \in Att, NEW type \in OpType, NEW r \in Requests \cup {0}
    PROVE  Send(a, type, r) \in Att
<1> DEFINE op == [id |-> a.next_send_id, type |-> type, hooked |-> TRUE,
                  answers |-> r]
           b == [a EXCEPT !.next_send_id = @ + 1]
           c == Fated(b, op.id, "open")
<1>1. CASE a.io = "open" /\ a.next_send_id \in Ids
  <2>1. op \in Op
    BY <1>1 DEF Op, OpOf
  <2>2. a.next_send_id + 1 \in 1 .. MaxOps + 1
    BY <1>1, BoundsAssumption DEF Ids
  <2>3. b \in Att
    BY <2>2 DEF Att
  <2>4. "open" \in Fate /\ op.id \in Ids
    BY <1>1 DEF Fate
  <2>5. c \in Att
    BY <2>3, <2>4, FatedType
  <2>6. WakeupWriter(Push(c, op)) \in Att
    BY <2>1, <2>5, PushType, WakeupWriterType
  <2> QED
    BY <1>1, <2>6 DEF Send
<1>2. CASE ~(a.io = "open" /\ a.next_send_id \in Ids)
  BY <1>2 DEF Send
<1> QED
  BY <1>1, <1>2

LEMMA RemoveAtType ==
    ASSUME NEW S, NEW q \in Seq(S), NEW k \in DOMAIN q
    PROVE  RemoveAt(q, k) \in Seq(S) /\ q[k] \in S
<1>1. k \in 1 .. Len(q) /\ Len(q) \in Nat
  BY LenProperties
<1>2. SubSeq(q, 1, k - 1) \in Seq(S)
  BY <1>1, SubSeqProperties, ElementOfSeq
<1>3. SubSeq(q, k + 1, Len(q)) \in Seq(S)
  BY <1>1, SubSeqProperties, ElementOfSeq
<1> QED
  BY <1>1, <1>2, <1>3, ConcatProperties, ElementOfSeq DEF RemoveAt

LEMMA CancelPendingReqType ==
    ASSUME NEW a \in Att, a.pending_req # None
    PROVE  CancelPendingReq(a) \in Att
<1>1. a.pending_req \in ReqOp /\ a.pending_req \in Op
  BY OpSets, Zenon DEF Att
<1>2. Destroy(a, a.pending_req) \in Att
  BY <1>1, DestroyType
<1>3. Destroy(a, a.pending_req).pending_req = a.pending_req
  BY DEF Destroy, Fated, Att
<1>4. Stripped(a.pending_req) \in ReqOp
  BY <1>1, StrippedType DEF ReqOp
<1> QED
  BY <1>2, <1>3, <1>4, Zenon DEF CancelPendingReq, Att

LEMMA CancelPendingIndType ==
    ASSUME NEW a \in Att, a.pending_ind # None
    PROVE  CancelPendingInd(a) \in Att
<1>1. a.pending_ind \in IndOp /\ a.pending_ind \in Op
  BY OpSets, Zenon DEF Att
<1>2. Destroy(a, a.pending_ind) \in Att
  BY <1>1, DestroyType
<1>3. Destroy(a, a.pending_ind).pending_ind = a.pending_ind
  BY DEF Destroy, Fated, Att
<1>4. Stripped(a.pending_ind) \in IndOp
  BY <1>1, StrippedType DEF IndOp
<1> QED
  BY <1>2, <1>3, <1>4, Zenon DEF CancelPendingInd, Att

LEMMA CancelReqType ==
    ASSUME NEW a \in Att, NEW k \in DOMAIN a.req_queue
    PROVE  CancelReq(a, k) \in Att
<1>1. a.req_queue \in Seq(ReqOp)
  BY DEF Att
<1>2. /\ RemoveAt(a.req_queue, k) \in Seq(ReqOp)
      /\ a.req_queue[k] \in Op
  BY <1>1, RemoveAtType, OpSets
<1>3. [a EXCEPT !.req_queue = RemoveAt(@, k)] \in Att
  BY <1>2, Zenon DEF Att
<1> QED
  BY <1>2, <1>3, DestroyType, WakeupWriterType DEF CancelReq

LEMMA CancelIndType ==
    ASSUME NEW a \in Att, NEW k \in DOMAIN a.ind_queue
    PROVE  CancelInd(a, k) \in Att
<1>1. a.ind_queue \in Seq(IndOp)
  BY DEF Att
<1>2. /\ RemoveAt(a.ind_queue, k) \in Seq(IndOp)
      /\ a.ind_queue[k] \in Op
  BY <1>1, RemoveAtType, OpSets
<1>3. [a EXCEPT !.ind_queue = RemoveAt(@, k)] \in Att
  BY <1>2, Zenon DEF Att
<1> QED
  BY <1>2, <1>3, DestroyType, WakeupWriterType DEF CancelInd

LEMMA CancelWriteType ==
    ASSUME NEW a \in Att, NEW k \in DOMAIN a.write_queue
    PROVE  CancelWrite(a, k) \in Att
<1>1. a.write_queue \in Seq(WriteOp)
  BY DEF Att
<1>2. /\ RemoveAt(a.write_queue, k) \in Seq(WriteOp)
      /\ a.write_queue[k] \in Op
  BY <1>1, RemoveAtType, OpSets
<1>3. [a EXCEPT !.write_queue = RemoveAt(@, k)] \in Att
  BY <1>2, Zenon DEF Att
<1> QED
  BY <1>2, <1>3, DestroyType, WakeupWriterType DEF CancelWrite

LEMMA ReactionsType ==
    ASSUME NEW a \in Att, NEW b \in Reactions(a)
    PROVE  b \in Att
<1>1. ASSUME b \in Submitted(a) PROVE b \in Att
  <2>1. UserOps \subseteq OpType /\ 0 \in Requests \cup {0}
    BY UserAssumption
  <2> QED
    BY <1>1, <2>1, SendType DEF Submitted
<1>2. ASSUME b \in Cancelled(a) PROVE b \in Att
  BY <1>2, CancelPendingReqType, CancelPendingIndType, CancelReqType,
     CancelIndType, CancelWriteType DEF Cancelled
<1> QED
  BY <1>1, <1>2 DEF Reactions

LEMMA EmptiedType ==
    ASSUME NEW a \in Att
    PROVE  Emptied(a) \in Att
<1>1. << >> \in Seq(ReqOp) /\ << >> \in Seq(IndOp) /\ << >> \in Seq(WriteOp)
  OBVIOUS
<1> QED
  BY <1>1, Zenon DEF Emptied, Att

LEMMA DestroyQueuedType ==
    ASSUME NEW a \in Att
    PROVE  DestroyQueued(a) \in Att
<1> DEFINE e == Emptied(a)
           hit(i) == \E op \in Queued(a) : op.id = i /\ op.hooked
           f == [i \in Ids |-> IF hit(i) THEN AfterDestroy[e.fate[i]]
                                         ELSE e.fate[i]]
           l == e.lost \/ AnswerIn(a.write_queue)
<1>1. e \in Att
  BY EmptiedType
<1>2. e.fate \in [Ids -> Fate]
  BY <1>1 DEF Att
<1>3. AfterDestroy \in [Fate -> Fate]
  BY DEF AfterDestroy, Fate
<1>4. f \in [Ids -> Fate]
  BY <1>2, <1>3
<1>5. l \in BOOLEAN
  OBVIOUS
<1>6. [e EXCEPT !.fate = f, !.lost = l] \in Att
  <2> HIDE DEF e, f, l
  <2> QED
    BY <1>1, <1>4, <1>5, Zenon DEF Att
<1> QED
  BY <1>6, Zenon DEF DestroyQueued

LEMMA CancelAllType ==
    ASSUME NEW a \in Att
    PROVE  CancelAll(a) \in Att
<1> DEFINE q == DestroyQueued(a)
           r == IF q.pending_req = None THEN q ELSE CancelPendingReq(q)
<1>1. q \in Att
  BY DestroyQueuedType
<1>2. r \in Att
  BY <1>1, CancelPendingReqType
<1>3. (IF r.pending_ind = None THEN r ELSE CancelPendingInd(r)) \in Att
  BY <1>2, CancelPendingIndType
<1> QED
  BY <1>3, Zenon DEF CancelAll

LEMMA DisconnectAllType ==
    ASSUME NEW a \in Att, NEW C
    PROVE  DisconnectAll(a, C) \in Att
<1> DEFINE e == Emptied(a)
           hooked(i, types) == \E op \in Queued(a) \cup Pending(a) :
                                  op.id = i /\ op.hooked /\ op.type \in types
           called == [i \in Ids |-> IF i \notin C /\ hooked(i, Elicits)
                                    THEN AfterCallback[a.fate[i]]
                                    ELSE a.fate[i]]
           f == [i \in Ids |-> IF hooked(i, OpType)
                               THEN AfterDestroy[called[i]] ELSE called[i]]
<1>1. e \in Att
  BY EmptiedType
<1>2. a.fate \in [Ids -> Fate]
  BY DEF Att
<1>3. AfterDestroy \in [Fate -> Fate] /\ AfterCallback \in [Fate -> Fate]
  BY DEF AfterDestroy, AfterCallback, Fate
<1>4. called \in [Ids -> Fate]
  BY <1>2, <1>3
<1>5. f \in [Ids -> Fate]
  BY <1>3, <1>4
<1>6. [e EXCEPT !.pending_req = None, !.pending_ind = None, !.fate = f] \in Att
  <2> HIDE DEF e, f
  <2> QED
    BY <1>1, <1>5, Zenon DEF Att
<1> QED
  BY <1>6, Zenon DEF DisconnectAll

LEMMA IoDestroyedType ==
    ASSUME NEW a \in Att, NEW io \in {"null", "freed"}
    PROVE  IoDestroyed(a, io) \in Att
BY Zenon DEF IoDestroyed, Att

\* The bearer that disconnect_cb leaves when its callbacks cancelled C
DisconnectedAtt(a, C) ==
    [DisconnectAll(IoDestroyed(a, "null"), C) EXCEPT !.owed = {}]

LEMMA DisconnectedIs ==
    ASSUME NEW a \in Att, NEW C
    PROVE  LET b == DisconnectedAtt(a, C)
           IN  /\ b \in Att /\ b.io = "null" /\ b.working = a.working
               /\ b.next_send_id = a.next_send_id
<1> DEFINE i == IoDestroyed(a, "null")
           d == DisconnectAll(i, C)
<1>1. /\ i \in Att /\ i.io = "null" /\ i.working = a.working
      /\ i.next_send_id = a.next_send_id
  BY IoDestroyedType, ZenonT(30) DEF IoDestroyed, Att
<1>2. d \in Att
  BY <1>1, DisconnectAllType
<1>3. DisconnectedAtt(a, C) = [d EXCEPT !.owed = {}]
  BY Zenon DEF DisconnectedAtt
<1> HIDE DEF i
<1>4. d.io = "null" /\ d.working = i.working /\ d.next_send_id = i.next_send_id
  BY <1>1 DEF DisconnectAll, Emptied, Att
<1> HIDE DEF d
<1>5. [d EXCEPT !.owed = {}] \in Att
  BY <1>2, Zenon DEF Att
<1> QED
  BY <1>1, <1>2, <1>3, <1>4, <1>5 DEF Att

\* What callbacks of disconnect_cb send is refused: att->io is NULL
LEMMA DisconnectLeaves ==
    ASSUME att \in Att, Disconnect
    PROVE  \E C \in SUBSET Cancellable(att) : att' = DisconnectedAtt(att, C)
<1>1. PICK C \in SUBSET Cancellable(att) :
          att' \in {DisconnectedAtt(att, C)} \cup
                       Submitted(DisconnectedAtt(att, C))
  BY Zenon DEF Disconnect, DisconnectedAtt
<1>2. \A t \in UserOps : Send(DisconnectedAtt(att, C), t, 0)
                            = DisconnectedAtt(att, C)
  <2>1. DisconnectedAtt(att, C).io # "open"
    BY DisconnectedIs
  <2> QED
    BY <2>1, Zenon DEF Send
<1> QED
  BY <1>1, <1>2, Zenon DEF Submitted

LEMMA EndReqType ==
    ASSUME NEW a \in Att, a.pending_req # None
    PROVE  EndReq(a) \in Att
<1>1. a.pending_req \in Op
  BY OpSets, Zenon DEF Att
<1>2. Destroy(a, a.pending_req) \in Att
  BY <1>1, DestroyType
<1>3. [Destroy(a, a.pending_req) EXCEPT !.pending_req = None] \in Att
  BY <1>2, Zenon DEF Att
<1> QED
  BY <1>3, WakeupWriterType DEF EndReq

LEMMA EndIndType ==
    ASSUME NEW a \in Att, a.pending_ind # None
    PROVE  EndInd(a) \in Att
<1>1. a.pending_ind \in Op
  BY OpSets, Zenon DEF Att
<1>2. Destroy(a, a.pending_ind) \in Att
  BY <1>1, DestroyType
<1>3. [Destroy(a, a.pending_ind) EXCEPT !.pending_ind = None] \in Att
  BY <1>2, Zenon DEF Att
<1> QED
  BY <1>3, WakeupWriterType DEF EndInd

-----------------------------------------------------------------------------
(* Frames: what the maps leave alone *)

SameLink(a, b) ==
    /\ b.io = a.io
    /\ b.reader = a.reader
    /\ b.sec = a.sec
    /\ b.in_req = a.in_req
    /\ b.working = a.working
    /\ b.owed = a.owed

SameQueues(a, b) ==
    /\ b.req_queue = a.req_queue
    /\ b.ind_queue = a.ind_queue
    /\ b.write_queue = a.write_queue
    /\ b.pending_req = a.pending_req
    /\ b.pending_ind = a.pending_ind
    /\ b.next_send_id = a.next_send_id
    /\ b.lost = a.lost

SameWriter(a, b) ==
    /\ b.writer = a.writer
    /\ b.writer_active = a.writer_active

LEMMA FatedFrame ==
    ASSUME NEW a \in Att, NEW id, NEW f
    PROVE  /\ SameLink(a, Fated(a, id, f))
           /\ SameQueues(a, Fated(a, id, f))
           /\ SameWriter(a, Fated(a, id, f))
BY DEF Fated, Att, SameLink, SameQueues, SameWriter

LEMMA CallbackFrame ==
    ASSUME NEW a \in Att, NEW op \in Op
    PROVE  /\ SameLink(a, Callback(a, op))
           /\ SameQueues(a, Callback(a, op))
           /\ SameWriter(a, Callback(a, op))
<1>1. CASE op.hooked /\ op.type \in Elicits
  BY <1>1, FatedFrame DEF Callback
<1>2. CASE ~(op.hooked /\ op.type \in Elicits)
  BY <1>2 DEF Callback, SameLink, SameQueues, SameWriter
<1> QED
  BY <1>1, <1>2

LEMMA DestroyFrame ==
    ASSUME NEW a \in Att, NEW op \in Op
    PROVE  /\ SameLink(a, Destroy(a, op))
           /\ SameQueues(a, Destroy(a, op))
           /\ SameWriter(a, Destroy(a, op))
<1>1. CASE op.hooked
  BY <1>1, FatedFrame DEF Destroy
<1>2. CASE ~op.hooked
  BY <1>2 DEF Destroy, SameLink, SameQueues, SameWriter
<1> QED
  BY <1>1, <1>2

LEMMA WakeupWriterFrame ==
    ASSUME NEW a \in Att
    PROVE  /\ SameLink(a, WakeupWriter(a))
           /\ SameQueues(a, WakeupWriter(a))
           /\ WakeupWriter(a).fate = a.fate
BY DEF WakeupWriter, Att, SameLink, SameQueues

LEMMA PendingKept ==
    ASSUME NEW a \in Att, NEW b \in Att,
           b.pending_req = a.pending_req, b.pending_ind = a.pending_ind
    PROVE  /\ a.pending_req # None => b.pending_req # None
           /\ a.pending_ind # None => b.pending_ind # None
OBVIOUS

LEMMA PushFrame ==
    ASSUME NEW a \in Att, NEW op \in Op
    PROVE  /\ SameLink(a, Push(a, op))
           /\ SameWriter(a, Push(a, op))
           /\ Push(a, op).fate = a.fate
           /\ Push(a, op).pending_req = a.pending_req
           /\ Push(a, op).pending_ind = a.pending_ind
           /\ Push(a, op).next_send_id = a.next_send_id
           /\ Push(a, op).lost = a.lost
           /\ Push(a, op).write_queue = IF op.type \in Elicits
                                        THEN a.write_queue
                                        ELSE Append(a.write_queue, op)
           /\ Push(a, op).req_queue = IF op.type = "REQ"
                                      THEN Append(a.req_queue, op)
                                      ELSE a.req_queue
           /\ Push(a, op).ind_queue = IF op.type = "IND"
                                      THEN Append(a.ind_queue, op)
                                      ELSE a.ind_queue
BY DEF Push, Att, SameLink, SameWriter, Elicits

SentOp(a, type, r) == [id |-> a.next_send_id, type |-> type, hooked |-> TRUE,
                       answers |-> r]

(* What a call of bt_att_send that is not refused leaves alone             *)
LEMMA SendFrame ==
    ASSUME NEW a \in Att, NEW type \in OpType, NEW r \in Requests \cup {0},
           a.io = "open", a.next_send_id \in Ids
    PROVE  /\ SameLink(a, Send(a, type, r))
           /\ Send(a, type, r).pending_req = a.pending_req
           /\ Send(a, type, r).pending_ind = a.pending_ind
           /\ Send(a, type, r).lost = a.lost
           /\ Send(a, type, r).next_send_id = a.next_send_id + 1
           /\ Send(a, type, r).write_queue =
                  IF type \in Elicits THEN a.write_queue
                  ELSE Append(a.write_queue, SentOp(a, type, r))
<1> DEFINE op == SentOp(a, type, r)
           b == [a EXCEPT !.next_send_id = @ + 1]
           c == Fated(b, op.id, "open")
           d == Push(c, op)
<1>1. op \in Op /\ op.type = type /\ op.id \in Ids
  BY DEF Op, OpOf, SentOp
<1>2. a.next_send_id + 1 \in 1 .. MaxOps + 1
  BY BoundsAssumption DEF Ids
<1>3. b \in Att
  BY <1>2 DEF Att
<1>4. /\ SameLink(a, b) /\ b.pending_req = a.pending_req
      /\ b.pending_ind = a.pending_ind /\ b.lost = a.lost
      /\ b.next_send_id = a.next_send_id + 1
      /\ b.write_queue = a.write_queue
  BY DEF Att, SameLink
<1>5. c \in Att
  BY <1>1, <1>3, FatedType DEF Fate
<1>6. SameLink(b, c) /\ SameQueues(b, c)
  BY <1>3, FatedFrame
<1>7. d \in Att
  BY <1>1, <1>5, PushType
<1>8. Send(a, type, r) = WakeupWriter(d)
  BY DEF Send, SentOp
<1>9. /\ SameLink(c, d) /\ d.pending_req = c.pending_req
      /\ d.pending_ind = c.pending_ind /\ d.lost = c.lost
      /\ d.next_send_id = c.next_send_id
      /\ d.write_queue = IF type \in Elicits THEN c.write_queue
                         ELSE Append(c.write_queue, op)
  BY <1>1, <1>5, PushFrame
<1>10. SameLink(d, WakeupWriter(d)) /\ SameQueues(d, WakeupWriter(d))
  BY <1>7, WakeupWriterFrame
<1> HIDE DEF b, c, d
<1> QED
  BY <1>4, <1>6, <1>8, <1>9, <1>10 DEF SameLink, SameQueues

-----------------------------------------------------------------------------
(* The responses of a write queue *)

NoRsp(q) == \A k \in DOMAIN q : q[k].type # "RSP"

\* At most one response, and it answers a request of S
OneRsp(q, S) ==
    /\ \A k \in DOMAIN q : q[k].type = "RSP" => q[k].answers \in S
    /\ \A j, k \in DOMAIN q : q[j].type = "RSP" /\ q[k].type = "RSP" => j = k

LEMMA AppendRsp ==
    ASSUME NEW T, NEW q \in Seq(T), NEW op \in T, NEW S
    PROVE  /\ NoRsp(q) /\ op.type # "RSP" => NoRsp(Append(q, op))
           /\ OneRsp(q, S) /\ op.type # "RSP" => OneRsp(Append(q, op), S)
           /\ NoRsp(q) /\ op.answers \in S => OneRsp(Append(q, op), S)
<1>1. /\ DOMAIN q = 1 .. Len(q) /\ Len(q) \in Nat
      /\ Append(q, op) \in Seq(T)
      /\ Len(Append(q, op)) = Len(q) + 1
      /\ DOMAIN Append(q, op) = 1 .. Len(q) + 1
      /\ \A k \in 1 .. Len(q) + 1 :
            Append(q, op)[k] = IF k <= Len(q) THEN q[k] ELSE op
  BY LenProperties
<1> QED
  BY <1>1 DEF NoRsp, OneRsp

LEMMA RemoveAtRsp ==
    ASSUME NEW T, NEW q \in Seq(T), NEW i \in DOMAIN q, NEW S
    PROVE  /\ NoRsp(q) => NoRsp(RemoveAt(q, i))
           /\ OneRsp(q, S) => OneRsp(RemoveAt(q, i), S)
<1> DEFINE n == RemoveAt(q, i)
           from(k) == IF k < i THEN k ELSE k + 1
<1>1. DOMAIN q = 1 .. Len(q) /\ Len(q) \in Nat /\ i \in 1 .. Len(q)
  BY LenProperties
<1>2. /\ DOMAIN n = 1 .. Len(q) - 1
      /\ \A k \in DOMAIN n : n[k] = IF k < i THEN q[k] ELSE q[k + 1]
  BY RemoveAtElements
<1> HIDE DEF n
<1>3. /\ \A k \in DOMAIN n : from(k) \in DOMAIN q /\ n[k] = q[from(k)]
      /\ \A j, k \in DOMAIN n : from(j) = from(k) => j = k
  BY <1>1, <1>2
<1> HIDE DEF from
<1>4. NoRsp(q) => NoRsp(n)
  BY <1>3 DEF NoRsp
<1>5. OneRsp(q, S) => OneRsp(n, S)
  BY <1>3 DEF OneRsp
<1> QED
  BY <1>4, <1>5 DEF n

LEMMA TailRsp ==
    ASSUME NEW T, NEW q \in Seq(T), q # << >>, NEW S
    PROVE  /\ OneRsp(q, S) => OneRsp(Tail(q), S)
           /\ OneRsp(q, S) /\ Head(q).type = "RSP" =>
                 NoRsp(Tail(q)) /\ Head(q).answers \in S
<1>1. /\ DOMAIN q = 1 .. Len(q) /\ Len(q) \in Nat \ {0}
      /\ Tail(q) \in Seq(T) /\ Len(Tail(q)) = Len(q) - 1
      /\ \A k \in 1 .. Len(q) - 1 : Tail(q)[k] = q[k + 1]
      /\ Head(q) = q[1]
  BY LenProperties, HeadTailProperties, EmptySeq
<1>2. DOMAIN Tail(q) = 1 .. Len(q) - 1
  BY <1>1, LenProperties
<1> QED
  BY <1>1, <1>2 DEF OneRsp, NoRsp

-----------------------------------------------------------------------------
(* Reactions *)

(* A reaction of the upper layer leaves the link, the requests and what is *)
(* pending, and adds no response to the write queue.                       *)
Harmless(a, b) ==
    /\ SameLink(a, b)
    /\ a.pending_req # None => b.pending_req # None
    /\ a.pending_ind # None => b.pending_ind # None
    /\ NoRsp(a.write_queue) => NoRsp(b.write_queue)
    /\ \A S : OneRsp(a.write_queue, S) => OneRsp(b.write_queue, S)

LEMMA SendHarmless ==
    ASSUME NEW a \in Att, NEW type \in OpType \ {"RSP"}
    PROVE  Harmless(a, Send(a, type, 0))
<1>1. CASE a.io = "open" /\ a.next_send_id \in Ids
  <2> DEFINE op == SentOp(a, type, 0)
  <2>1. op \in Op /\ op.type # "RSP"
    BY <1>1 DEF Op, OpOf, SentOp
  <2>2. a.write_queue \in Seq(WriteOp)
    BY DEF Att
  <2>3. CASE type \in Elicits
    BY <1>1, <2>3, SendFrame DEF Harmless
  <2>4. CASE type \notin Elicits
    <3>1. op \in WriteOp
      BY <2>1, <2>4, OpSets DEF SentOp
    <3>2. /\ NoRsp(a.write_queue) => NoRsp(Append(a.write_queue, op))
          /\ \A S : OneRsp(a.write_queue, S)
                        => OneRsp(Append(a.write_queue, op), S)
      BY <2>1, <2>2, <3>1, AppendRsp
    <3> QED
      BY <1>1, <2>4, <3>2, SendFrame DEF Harmless
  <2> QED
    BY <2>3, <2>4
<1>2. CASE ~(a.io = "open" /\ a.next_send_id \in Ids)
  BY <1>2 DEF Send, Harmless, SameLink
<1> QED
  BY <1>1, <1>2

LEMMA CancelPendingReqHarmless ==
    ASSUME NEW a \in Att, a.pending_req # None
    PROVE  Harmless(a, CancelPendingReq(a))
<1> DEFINE d == Destroy(a, a.pending_req)
<1>1. a.pending_req \in ReqOp /\ a.pending_req \in Op
  BY OpSets, Zenon DEF Att
<1>2. d \in Att /\ SameLink(a, d) /\ SameQueues(a, d)
  BY <1>1, DestroyType, DestroyFrame
<1>3. Stripped(d.pending_req) \in ReqOp
  BY <1>1, <1>2, StrippedType DEF SameQueues, ReqOp
<1>4. Stripped(d.pending_req) # None
  BY <1>3, OpSets
<1>5. CancelPendingReq(a) = [d EXCEPT !.pending_req = Stripped(@)]
  BY DEF CancelPendingReq
<1> HIDE DEF d
<1> QED
  BY <1>2, <1>4, <1>5 DEF Att, Harmless, SameLink, SameQueues

LEMMA CancelPendingIndHarmless ==
    ASSUME NEW a \in Att, a.pending_ind # None
    PROVE  Harmless(a, CancelPendingInd(a))
<1> DEFINE d == Destroy(a, a.pending_ind)
<1>1. a.pending_ind \in IndOp /\ a.pending_ind \in Op
  BY OpSets, Zenon DEF Att
<1>2. d \in Att /\ SameLink(a, d) /\ SameQueues(a, d)
  BY <1>1, DestroyType, DestroyFrame
<1>3. Stripped(d.pending_ind) \in IndOp
  BY <1>1, <1>2, StrippedType DEF SameQueues, IndOp
<1>4. Stripped(d.pending_ind) # None
  BY <1>3, OpSets
<1>5. CancelPendingInd(a) = [d EXCEPT !.pending_ind = Stripped(@)]
  BY DEF CancelPendingInd
<1> HIDE DEF d
<1> QED
  BY <1>2, <1>4, <1>5 DEF Att, Harmless, SameLink, SameQueues

(* The common end of CancelReq, CancelInd and CancelWrite                  *)
LEMMA DestroyWakeHarmless ==
    ASSUME NEW a \in Att, NEW b \in Att, NEW op \in Op, Harmless(a, b)
    PROVE  Harmless(a, WakeupWriter(Destroy(b, op)))
<1> DEFINE d == Destroy(b, op)
<1>1. d \in Att /\ SameLink(b, d) /\ SameQueues(b, d)
  BY DestroyType, DestroyFrame
<1>2. SameLink(d, WakeupWriter(d)) /\ SameQueues(d, WakeupWriter(d))
  BY <1>1, WakeupWriterFrame
<1> HIDE DEF d
<1>3. Harmless(a, WakeupWriter(d))
  BY <1>1, <1>2 DEF Harmless, SameLink, SameQueues
<1> QED
  BY <1>3 DEF d

LEMMA CancelReqHarmless ==
    ASSUME NEW a \in Att, NEW k \in DOMAIN a.req_queue
    PROVE  Harmless(a, CancelReq(a, k))
<1> DEFINE b == [a EXCEPT !.req_queue = RemoveAt(@, k)]
<1>1. a.req_queue \in Seq(ReqOp)
  BY DEF Att
<1>2. /\ RemoveAt(a.req_queue, k) \in Seq(ReqOp)
      /\ a.req_queue[k] \in Op
  BY <1>1, RemoveAtType, OpSets
<1>3. b \in Att
  BY <1>2, Zenon DEF Att
<1>4. Harmless(a, b)
  BY DEF Harmless, SameLink, Att
<1> QED
  BY <1>2, <1>3, <1>4, DestroyWakeHarmless DEF CancelReq

LEMMA CancelIndHarmless ==
    ASSUME NEW a \in Att, NEW k \in DOMAIN a.ind_queue
    PROVE  Harmless(a, CancelInd(a, k))
<1> DEFINE b == [a EXCEPT !.ind_queue = RemoveAt(@, k)]
<1>1. a.ind_queue \in Seq(IndOp)
  BY DEF Att
<1>2. /\ RemoveAt(a.ind_queue, k) \in Seq(IndOp)
      /\ a.ind_queue[k] \in Op
  BY <1>1, RemoveAtType, OpSets
<1>3. b \in Att
  BY <1>2, Zenon DEF Att
<1>4. Harmless(a, b)
  BY DEF Harmless, SameLink, Att
<1> QED
  BY <1>2, <1>3, <1>4, DestroyWakeHarmless DEF CancelInd

LEMMA CancelWriteHarmless ==
    ASSUME NEW a \in Att, NEW k \in DOMAIN a.write_queue
    PROVE  Harmless(a, CancelWrite(a, k))
<1> DEFINE b == [a EXCEPT !.write_queue = RemoveAt(@, k)]
<1>1. a.write_queue \in Seq(WriteOp)
  BY DEF Att
<1>2. /\ RemoveAt(a.write_queue, k) \in Seq(WriteOp)
      /\ a.write_queue[k] \in Op
  BY <1>1, RemoveAtType, OpSets
<1>3. b \in Att
  BY <1>2, Zenon DEF Att
<1>4. b.write_queue = RemoveAt(a.write_queue, k)
  BY DEF Att
<1>5. /\ NoRsp(a.write_queue) => NoRsp(b.write_queue)
      /\ \A S : OneRsp(a.write_queue, S) => OneRsp(b.write_queue, S)
  BY <1>1, <1>4, RemoveAtRsp
<1>6. /\ SameLink(a, b) /\ b.pending_req = a.pending_req
      /\ b.pending_ind = a.pending_ind
  BY DEF SameLink, Att
<1> HIDE DEF b
<1>7. Harmless(a, b)
  BY <1>5, <1>6 DEF Harmless
<1> QED
  BY <1>2, <1>3, <1>7, DestroyWakeHarmless DEF CancelWrite, b

LEMMA ReactionsHarmless ==
    ASSUME NEW a \in Att, NEW b \in Reactions(a)
    PROVE  b \in Att /\ Harmless(a, b)
<1>1. ASSUME b \in Submitted(a) PROVE Harmless(a, b)
  BY <1>1, UserAssumption, SendHarmless DEF Submitted
<1>2. ASSUME b \in Cancelled(a) PROVE Harmless(a, b)
  BY <1>2, CancelPendingReqHarmless, CancelPendingIndHarmless,
     CancelReqHarmless, CancelIndHarmless, CancelWriteHarmless DEF Cancelled
<1>3. Harmless(a, a)
  BY DEF Harmless, SameLink
<1> QED
  BY <1>1, <1>2, <1>3, ReactionsType DEF Reactions

(* bt_att_cancel_all empties the write queue and leaves the link alone     *)
LEMMA CancelAllFrame ==
    ASSUME NEW a \in Att
    PROVE  /\ SameLink(a, CancelAll(a))
           /\ CancelAll(a).write_queue = << >>
<1> DEFINE q == DestroyQueued(a)
           r == IF q.pending_req = None THEN q ELSE CancelPendingReq(q)
           s == IF r.pending_ind = None THEN r ELSE CancelPendingInd(r)
<1>1. q \in Att /\ r \in Att
  BY DestroyQueuedType, CancelPendingReqType
<1>2. SameLink(a, q) /\ q.write_queue = << >>
  BY DEF DestroyQueued, Emptied, Att, SameLink
<1>3. ASSUME NEW b \in Att, b.pending_req # None
      PROVE  SameLink(b, CancelPendingReq(b))
             /\ CancelPendingReq(b).write_queue = b.write_queue
  <2>1. b.pending_req \in Op
    BY OpSets, <1>3, Zenon DEF Att
  <2>2. /\ Destroy(b, b.pending_req) \in Att
        /\ SameLink(b, Destroy(b, b.pending_req))
        /\ SameQueues(b, Destroy(b, b.pending_req))
    BY <2>1, DestroyType, DestroyFrame
  <2> QED
    BY <2>2 DEF CancelPendingReq, SameLink, SameQueues, Att
<1>4. ASSUME NEW b \in Att, b.pending_ind # None
      PROVE  SameLink(b, CancelPendingInd(b))
             /\ CancelPendingInd(b).write_queue = b.write_queue
  <2>1. b.pending_ind \in Op
    BY OpSets, <1>4, Zenon DEF Att
  <2>2. /\ Destroy(b, b.pending_ind) \in Att
        /\ SameLink(b, Destroy(b, b.pending_ind))
        /\ SameQueues(b, Destroy(b, b.pending_ind))
    BY <2>1, DestroyType, DestroyFrame
  <2> QED
    BY <2>2 DEF CancelPendingInd, SameLink, SameQueues, Att
<1>5. CancelAll(a) = s
  BY DEF CancelAll
<1> HIDE DEF q
<1>6. SameLink(q, r) /\ r.write_queue = q.write_queue
  BY <1>1, <1>3 DEF SameLink
<1> HIDE DEF r
<1>7. SameLink(r, s) /\ s.write_queue = r.write_queue
  BY <1>1, <1>4 DEF SameLink
<1> HIDE DEF s
<1> QED
  BY <1>2, <1>5, <1>6, <1>7 DEF SameLink

-----------------------------------------------------------------------------
(* can_write_data: the op that is picked *)

LEMMA PickedType ==
    ASSUME NEW a \in Att, Sendable(a)
    PROVE  Popped(a) \in Att /\ NextOp(a) \in Op
<1>1. /\ a.write_queue \in Seq(WriteOp)
      /\ a.req_queue \in Seq(ReqOp)
      /\ a.ind_queue \in Seq(IndOp)
  BY DEF Att
<1>2. CASE a.write_queue # << >>
  <2>1. Picked(a) = "write"
    BY <1>2 DEF Picked
  <2>2. Tail(a.write_queue) \in Seq(WriteOp) /\ Head(a.write_queue) \in WriteOp
    BY <1>1, <1>2, HeadTailProperties
  <2>3. /\ Popped(a) = [a EXCEPT !.write_queue = Tail(@)]
        /\ NextOp(a) = Head(a.write_queue)
    BY <2>1 DEF Popped, NextOp
  <2> QED
    BY <2>2, <2>3, OpSets, Zenon DEF Att
<1>3. CASE /\ a.write_queue = << >>
           /\ a.pending_req = None /\ a.req_queue # << >>
  <2>1. Picked(a) = "req"
    BY <1>3 DEF Picked
  <2>2. Tail(a.req_queue) \in Seq(ReqOp) /\ Head(a.req_queue) \in ReqOp
    BY <1>1, <1>3, HeadTailProperties
  <2>3. /\ Popped(a) = [a EXCEPT !.req_queue = Tail(@)]
        /\ NextOp(a) = Head(a.req_queue)
    BY <2>1 DEF Popped, NextOp
  <2> QED
    BY <2>2, <2>3, OpSets, Zenon DEF Att
<1>4. CASE /\ a.write_queue = << >>
           /\ ~(a.pending_req = None /\ a.req_queue # << >>)
  <2>1. Picked(a) = "ind" /\ a.ind_queue # << >>
    BY <1>4 DEF Picked, Sendable
  <2>2. Tail(a.ind_queue) \in Seq(IndOp) /\ Head(a.ind_queue) \in IndOp
    BY <1>1, <2>1, HeadTailProperties
  <2>3. /\ Popped(a) = [a EXCEPT !.ind_queue = Tail(@)]
        /\ NextOp(a) = Head(a.ind_queue)
    BY <2>1 DEF Popped, NextOp
  <2> QED
    BY <2>2, <2>3, OpSets, Zenon DEF Att
<1> QED
  BY <1>2, <1>3, <1>4

LEMMA TransmittedType ==
    ASSUME NEW a \in Att, NEW op \in Op
    PROVE  Transmitted(a, op) \in Att
<1>1. CASE op.type = "REQ"
  BY <1>1, OpSets, Zenon DEF Transmitted, Att
<1>2. CASE op.type = "IND"
  BY <1>2, OpSets, Zenon DEF Transmitted, Att
<1>3. CASE op.type = "RSP"
  <2> DEFINE o == a.owed \ {op.answers}
             b == [a EXCEPT !.in_req = FALSE, !.owed = o]
  <2>1. o \in SUBSET Requests
    BY DEF Att
  <2>2. b \in Att
    <3> HIDE DEF o
    <3> QED
      BY <2>1, Zenon DEF Att
  <2>3. Transmitted(a, op) = Destroy(b, op)
    BY <1>3 DEF Transmitted
  <2> QED
    BY <2>2, <2>3, DestroyType
<1>4. CASE op.type \notin {"REQ", "IND", "RSP"}
  BY <1>4, DestroyType DEF Transmitted
<1> QED
  BY <1>1, <1>2, <1>3, <1>4

LEMMA AfterCallHarmless ==
    ASSUME NEW a \in Att, NEW op \in Op, NEW b \in AfterCall(a, op)
    PROVE  b \in Att /\ Harmless(a, b)
<1> DEFINE c == Callback(a, op)
<1>1. CASE op.hooked
  <2>1. c \in Att /\ SameLink(a, c) /\ SameQueues(a, c)
    BY CallbackType, CallbackFrame
  <2>2. b \in Reactions(c)
    BY <1>1 DEF AfterCall
  <2>3. b \in Att /\ Harmless(c, b)
    BY <2>1, <2>2, ReactionsHarmless
  <2> HIDE DEF c
  <2> QED
    BY <2>1, <2>3 DEF Harmless, SameLink, SameQueues
<1>2. CASE ~op.hooked
  BY <1>2 DEF AfterCall, Harmless, SameLink
<1> QED
  BY <1>1, <1>2

-----------------------------------------------------------------------------
(* Type correctness *)

LEMMA InitType == Init => TypeOK
<1> SUFFICES ASSUME Init PROVE TypeOK
  OBVIOUS
<1>1. /\ << >> \in Seq(ReqOp) /\ << >> \in Seq(IndOp)
      /\ << >> \in Seq(WriteOp) /\ << >> \in Seq(Pdu) /\ Len(<< >>) = 0
  OBVIOUS
<1>2. [i \in Ids |-> "unused"] \in [Ids -> Fate]
  BY DEF Fate
<1>3. 1 \in 1 .. MaxOps + 1 /\ LOW \in LOW .. HIGH /\ 0 \in 0 .. MaxRx
  BY BoundsAssumption DEF LOW, HIGH
<1>4. att \in Att
  BY <1>1, <1>2, <1>3, Zenon DEF Init, Att
<1> QED
  BY <1>1, <1>3, <1>4 DEF Init, TypeOK

(* A handler of the read branch finds a PDU, and what is left is typed     *)
LEMMA ReadType ==
    ASSUME TypeOK, NEW pdus, Read(pdus)
    PROVE  /\ ev' \in SUBSET {"HUP", "IN", "OUT"}
           /\ rx' \in Seq(Pdu)
           /\ peerTx' \in Len(rx') .. MaxRx
           /\ Head(rx) \in pdus
           /\ peerTx - Len(rx) + 1 \in Requests
<1>1. /\ rx \in Seq(Pdu) /\ rx # << >> /\ rx' = Tail(rx) /\ peerTx' = peerTx
      /\ peerTx \in Len(rx) .. MaxRx
  BY DEF TypeOK, Read
<1>2. Tail(rx) \in Seq(Pdu) /\ Len(Tail(rx)) = Len(rx) - 1
      /\ Len(rx) \in Nat \ {0}
  BY <1>1, HeadTailProperties, EmptySeq
<1>3. peerTx - Len(rx) + 1 \in 1 .. MaxRx
  BY <1>1, <1>2, BoundsAssumption
<1>4. peerTx \in Len(rx) - 1 .. MaxRx
  BY <1>1, <1>2, BoundsAssumption
<1> QED
  BY <1>1, <1>2, <1>3, <1>4 DEF TypeOK, Read, Requests

LEMMA ReadingType ==
    ASSUME TypeOK, Reading
    PROVE  TypeOK'
<1>0. att \in Att /\ link \in {"up", "down"}
  BY DEF TypeOK
<1> SUFFICES /\ att' \in Att /\ link' \in {"up", "down"}
             /\ ev' \in SUBSET {"HUP", "IN", "OUT"}
             /\ rx' \in Seq(Pdu)
             /\ peerTx' \in Len(rx') .. MaxRx
  BY DEF TypeOK
<1>1. CASE ReadNothing
  <2>1. [att EXCEPT !.reader = FALSE] \in Att
    BY <1>0, Zenon DEF Att
  <2> QED
    BY <1>0, <1>1, <2>1 DEF ReadNothing, TypeOK
<1>2. CASE ReadUnexpected
  BY <1>0, <1>2, ReadType DEF ReadUnexpected
<1>3. CASE ReadRetry
  <2> DEFINE l == Raised(att.sec, Head(rx))
             q == Cons(att.pending_req, att.req_queue)
             b == [att EXCEPT !.sec = l, !.pending_req = None,
                              !.req_queue = q]
  <2>1. att.pending_req \in ReqOp /\ att.req_queue \in Seq(ReqOp)
    BY <1>0, <1>3, Zenon DEF Att, ReadRetry
  <2>2. q \in Seq(ReqOp)
    BY <2>1 DEF Cons
  <2>3. l \in LOW .. HIGH
    BY <1>0 DEF Raised, LOW, MEDIUM, HIGH, Att
  <2>4. b \in Att
    <3> HIDE DEF l, q
    <3> QED
      BY <1>0, <2>2, <2>3, Zenon DEF Att
  <2>5. att' = WakeupWriter(b) /\ link' = link
    BY <1>3 DEF ReadRetry, Requeued
  <2> QED
    BY <1>0, <1>3, <2>4, <2>5, ReadType, WakeupWriterType DEF ReadRetry
<1>4. CASE ReadRsp
  <2>1. att.pending_req \in Op
    BY OpSets, <1>0, <1>4, Zenon DEF Att, ReadRsp
  <2>2. PICK a \in AfterCall(att, att.pending_req) : att' = EndReq(a)
    BY <1>4 DEF ReadRsp
  <2>3. a \in Att /\ a.pending_req # None
    BY <1>0, <1>4, <2>1, <2>2, AfterCallHarmless DEF Harmless, ReadRsp
  <2> QED
    BY <1>0, <1>4, <2>2, <2>3, EndReqType, ReadType DEF ReadRsp
<1>5. CASE ReadConf
  <2>1. att.pending_ind \in Op
    BY OpSets, <1>0, <1>5, Zenon DEF Att, ReadConf
  <2>2. PICK a \in AfterCall(att, att.pending_ind) : att' = EndInd(a)
    BY <1>5 DEF ReadConf
  <2>3. a \in Att /\ a.pending_ind # None
    BY <1>0, <1>5, <2>1, <2>2, AfterCallHarmless DEF Harmless, ReadConf
  <2> QED
    BY <1>0, <1>5, <2>2, <2>3, EndIndType, ReadType DEF ReadConf
<1>6. CASE ReadReq
  <2> DEFINE r == peerTx - Len(rx) + 1
             t == TakeRequest(att, r)
  <2>1. r \in Requests
    BY <1>6, ReadType DEF ReadReq
  <2> HIDE DEF r
  <2>2. att.owed \cup {r} \in SUBSET Requests
    BY <1>0, <2>1 DEF Att
  <2>3. t \in Att
    BY <1>0, <2>2, Zenon DEF TakeRequest, Att
  <2>4. PICK a \in Reactions(t) :
            \/ att' = Send(a, "RSP", r)
            \/ att' = [a EXCEPT !.working = @ \cup {r}]
    BY <1>6 DEF ReadReq, r
  <2>5. a \in Att
    BY <2>3, <2>4, ReactionsType
  <2>6. Send(a, "RSP", r) \in Att
    BY <2>1, <2>5, SendType DEF OpType
  <2>7. [a EXCEPT !.working = @ \cup {r}] \in Att
    <3>1. a.working \cup {r} \in SUBSET Requests
      BY <2>1, <2>5 DEF Att
    <3> QED
      BY <2>5, <3>1, Zenon DEF Att
  <2> QED
    BY <1>0, <1>6, <2>4, <2>6, <2>7, ReadType DEF ReadReq
<1>7. CASE ReadSecondReq
  <2>1. [att EXCEPT !.reader = FALSE] \in Att
    BY <1>0, Zenon DEF Att
  <2> QED
    BY <1>0, <1>7, <2>1, ReadType DEF ReadSecondReq
<1>8. CASE ReadCmd
  BY <1>0, <1>8, ReadType, ReactionsType DEF ReadCmd
<1>9. CASE ReadUnhandled
  <2>1. Send(att, "RSP", 0) \in Att
    BY <1>0, SendType DEF OpType
  <2> QED
    BY <1>0, <1>9, <2>1, ReadType DEF ReadUnhandled
<1> QED
  BY <1>1, <1>2, <1>3, <1>4, <1>5, <1>6, <1>7, <1>8, <1>9 DEF Reading

LEMMA WritingType ==
    ASSUME TypeOK, Writing
    PROVE  TypeOK'
<1>0. att \in Att
  BY DEF TypeOK
<1>1. ASSUME Write, att' \in Att
      PROVE  TypeOK'
  BY <1>1 DEF Write, TypeOK
<1>2. CASE WriteSend
  <2>1. Transmitted(Popped(att), NextOp(att)) \in Att
    BY <1>0, <1>2, PickedType, TransmittedType DEF WriteSend
  <2> QED
    BY <1>1, <1>2, <2>1 DEF WriteSend
<1>3. CASE WriteFail
  <2> DEFINE op == NextOp(att)
  <2>1. Popped(att) \in Att /\ op \in Op
    BY <1>0, <1>3, PickedType DEF WriteFail
  <2>2. PICK a \in AfterCall(Popped(att), op) :
            att' = [Destroy(a, op) EXCEPT !.lost = @ \/ op.answers # 0]
    BY <1>3 DEF WriteFail
  <2> HIDE DEF op
  <2>3. Destroy(a, op) \in Att
    BY <2>1, <2>2, AfterCallHarmless, DestroyType
  <2> DEFINE l == Destroy(a, op).lost \/ op.answers # 0
  <2>4. l \in BOOLEAN /\ att' = [Destroy(a, op) EXCEPT !.lost = l]
    BY <2>2
  <2> HIDE DEF l
  <2>5. att' \in Att
    BY <2>3, <2>4, Zenon DEF Att
  <2> QED
    BY <1>1, <1>3, <2>5 DEF WriteFail
<1>4. CASE WriteIdle
  <2>1. [att EXCEPT !.writer = FALSE, !.writer_active = FALSE] \in Att
    BY <1>0, Zenon DEF Att
  <2> QED
    BY <1>1, <1>4, <2>1 DEF WriteIdle
<1> QED
  BY <1>2, <1>3, <1>4 DEF Writing

LEMMA OtherType ==
    ASSUME TypeOK,
           Disconnect \/ TimeoutReq \/ TimeoutInd \/ UserCall \/ Respond \/ Unref
    PROVE  TypeOK'
<1>0. att \in Att
  BY DEF TypeOK
<1>1. CASE Disconnect
  <2>1. att' \in Att
    BY <1>0, <1>1, DisconnectLeaves, DisconnectedIs
  <2> QED
    BY <1>1, <2>1 DEF Disconnect, TypeOK
<1>2. CASE TimeoutReq
  <2>1. att.pending_req \in Op
    BY OpSets, <1>0, <1>2, Zenon DEF Att, TimeoutReq
  <2>2. Destroy(att, att.pending_req) \in Att
    BY <1>0, <2>1, DestroyType
  <2>3. [Destroy(att, att.pending_req) EXCEPT !.pending_req = None] \in Att
    BY <2>2, Zenon DEF Att
  <2> QED
    BY <1>2, <2>3 DEF TimeoutReq, TypeOK
<1>3. CASE TimeoutInd
  <2>1. att.pending_ind \in Op
    BY OpSets, <1>0, <1>3, Zenon DEF Att, TimeoutInd
  <2>2. Destroy(att, att.pending_ind) \in Att
    BY <1>0, <2>1, DestroyType
  <2>3. [Destroy(att, att.pending_ind) EXCEPT !.pending_ind = None] \in Att
    BY <2>2, Zenon DEF Att
  <2> QED
    BY <1>3, <2>3 DEF TimeoutInd, TypeOK
<1>4. CASE UserCall
  <2>1. att' \in Reactions(att) \/ att' = CancelAll(att)
    BY <1>4 DEF UserCall, Reactions
  <2>2. att' \in Att
    BY <1>0, <2>1, ReactionsType, CancelAllType
  <2> QED
    BY <1>4, <2>2 DEF UserCall, TypeOK
<1>5. CASE Respond
  <2>1. PICK r \in att.working :
            att' = Send([att EXCEPT !.working = @ \ {r}], "RSP", r)
    BY <1>5 DEF Respond
  <2>2. r \in Requests /\ att.working \ {r} \in SUBSET Requests
    BY <1>0, <2>1 DEF Att
  <2>3. [att EXCEPT !.working = @ \ {r}] \in Att
    BY <1>0, <2>2, Zenon DEF Att
  <2>4. att' \in Att
    BY <2>1, <2>2, <2>3, SendType DEF OpType
  <2> QED
    BY <1>5, <2>4 DEF Respond, TypeOK
<1>6. CASE Unref
  <2> DEFINE d == IoDestroyed(CancelAll(att), "freed")
  <2>1. d \in Att
    BY <1>0, CancelAllType, IoDestroyedType
  <2> HIDE DEF d
  <2>2. [d EXCEPT !.pending_req = None, !.pending_ind = None, !.owed = {}]
            \in Att
    BY <2>1, Zenon DEF Att
  <2>3. att' = [d EXCEPT !.pending_req = None, !.pending_ind = None,
                         !.owed = {}]
    BY <1>6 DEF Unref, d
  <2> QED
    BY <1>6, <2>2, <2>3 DEF Unref, TypeOK
<1> QED
  BY <1>1, <1>2, <1>3, <1>4, <1>5, <1>6

LEMMA EnvironmentType ==
    ASSUME TypeOK, (\E writable \in BOOLEAN : Poll(writable))
                      \/ PeerSend \/ PeerLeave
    PROVE  TypeOK'
<1>1. CASE \E writable \in BOOLEAN : Poll(writable)
  BY <1>1 DEF Poll, Ready, TypeOK
<1>2. CASE PeerSend
  <2>1. PICK p \in PeerPdus : rx' = Append(rx, p)
    BY <1>2 DEF PeerSend
  <2>2. /\ rx \in Seq(Pdu) /\ p \in Pdu /\ Len(rx) \in Nat
        /\ peerTx \in Len(rx) .. MaxRx /\ peerTx < MaxRx
        /\ peerTx' = peerTx + 1
    BY <1>2, PeerAssumption DEF TypeOK, PeerSend
  <2>3. rx' \in Seq(Pdu) /\ Len(rx') = Len(rx) + 1
    BY <2>1, <2>2
  <2>4. peerTx' \in Len(rx') .. MaxRx
    BY <2>2, <2>3, BoundsAssumption
  <2> QED
    BY <1>2, <2>3, <2>4 DEF PeerSend, TypeOK
<1>3. CASE PeerLeave
  BY <1>3 DEF PeerLeave, TypeOK
<1> QED
  BY <1>1, <1>2, <1>3

LEMMA NextType == TypeOK /\ [Next]_vars => TypeOK'
<1>1. CASE UNCHANGED vars
  BY <1>1 DEF vars, TypeOK
<1> QED
  BY <1>1, ReadingType, WritingType, OtherType, EnvironmentType DEF Next

(* Every bearer stays well typed, for every bound on its ops and PDUs:     *)
(* the fields of struct bt_att after any handler of att.c.                 *)
THEOREM TypeCorrect == Spec => []TypeOK
<1>1. Init => TypeOK
  BY InitType
<1>2. TypeOK /\ [Next]_vars => TypeOK'
  BY NextType
<1> QED
  BY <1>1, <1>2, PTL DEF Spec

-----------------------------------------------------------------------------
(* The sequential protocol: in_req against the requests not yet answered   *)

Unhandled == {"UNKNOWN", "NOT", "IND"}

(* The strengthening of InReqMeansOwed that every handler preserves: one   *)
(* request at most is owed an answer, and the answer is with the handler   *)
(* or is the only response queued.                                         *)
ReqInv(a) ==
    a.io = "open" =>
        /\ a.in_req <=> a.owed # {}
        /\ \A r, s \in a.owed : r = s
        /\ a.working \subseteq a.owed
        /\ OneRsp(a.write_queue, a.owed)
        /\ a.working # {} => NoRsp(a.write_queue)

ServedPdus == \A k \in DOMAIN rx : rx[k] \notin Unhandled

SeqInv == TypeOK /\ ServedPdus /\ ReqInv(att)

LEMMA HarmlessReq ==
    ASSUME NEW a, NEW b, Harmless(a, b), ReqInv(a)
    PROVE  ReqInv(b)
BY DEF Harmless, ReqInv, SameLink

(* Same fields as far as ReqInv is concerned                               *)
LEMMA SameReq ==
    ASSUME NEW a, NEW b, SameLink(a, b), b.write_queue = a.write_queue,
           ReqInv(a)
    PROVE  ReqInv(b)
BY DEF ReqInv, SameLink

LEMMA AnswerReq ==
    ASSUME NEW a \in Att, NEW r \in Requests,
           a.io = "open", a.in_req, a.owed = {r}, a.working = {},
           NoRsp(a.write_queue)
    PROVE  ReqInv(Send(a, "RSP", r))
<1>1. CASE a.next_send_id \in Ids
  <2> DEFINE op == SentOp(a, "RSP", r)
             s == Send(a, "RSP", r)
  <2>1. op \in WriteOp /\ op.answers = r
    BY <1>1 DEF WriteOp, OpOf, SentOp, OpType, Elicits
  <2>2. a.write_queue \in Seq(WriteOp)
    BY DEF Att
  <2>3. OneRsp(Append(a.write_queue, op), a.owed)
    BY <2>1, <2>2, AppendRsp
  <2>4. SameLink(a, s) /\ s.write_queue = Append(a.write_queue, op)
    BY <1>1, SendFrame DEF OpType, Elicits
  <2> HIDE DEF op, s
  <2>5. ReqInv(s)
    BY <2>3, <2>4 DEF ReqInv, SameLink
  <2> QED
    BY <2>5 DEF s
<1>2. CASE a.next_send_id \notin Ids
  <2>1. Send(a, "RSP", r) = a
    BY <1>2 DEF Send
  <2>2. OneRsp(a.write_queue, a.owed)
    BY DEF NoRsp, OneRsp
  <2>3. ReqInv(a)
    BY <2>2 DEF ReqInv
  <2> QED
    BY <2>1, <2>3
<1> QED
  BY <1>1, <1>2

LEMMA ReadServed ==
    ASSUME TypeOK, ServedPdus, NEW pdus, Read(pdus)
    PROVE  ServedPdus' /\ Head(rx) \notin Unhandled
<1>1. rx \in Seq(Pdu) /\ rx # << >> /\ rx' = Tail(rx)
  BY DEF TypeOK, Read
<1>2. /\ DOMAIN rx = 1 .. Len(rx) /\ Len(rx) \in Nat \ {0}
      /\ Tail(rx) \in Seq(Pdu) /\ Len(Tail(rx)) = Len(rx) - 1
      /\ \A k \in 1 .. Len(rx) - 1 : Tail(rx)[k] = rx[k + 1]
      /\ Head(rx) = rx[1]
  BY <1>1, LenProperties, HeadTailProperties, EmptySeq
<1>3. DOMAIN Tail(rx) = 1 .. Len(rx) - 1
  BY <1>2, LenProperties
<1> QED
  BY <1>1, <1>2, <1>3 DEF ServedPdus

LEMMA ReadingReq ==
    ASSUME SeqInv, Reading
    PROVE  ServedPdus' /\ ReqInv(att')
<1>0. att \in Att /\ TypeOK /\ ServedPdus /\ ReqInv(att)
  BY DEF SeqInv, TypeOK
<1>1. CASE ReadNothing
  <2>1. SameLink(att, [att EXCEPT !.reader = FALSE])
        \/ [att EXCEPT !.reader = FALSE].io = att.io
    BY <1>0 DEF Att
  <2>2. ReqInv([att EXCEPT !.reader = FALSE])
    BY <1>0 DEF ReqInv, Att
  <2> QED
    BY <1>0, <1>1, <2>2 DEF ReadNothing, ServedPdus
<1>2. CASE ReadUnexpected
  BY <1>0, <1>2, ReadServed DEF ReadUnexpected
<1>3. CASE ReadRetry
  <2> DEFINE b == Requeued(att, Raised(att.sec, Head(rx)))
  <2>1. ReqInv(b)
    BY <1>0 DEF Requeued, ReqInv, Att
  <2>2. att' = WakeupWriter(b)
    BY <1>3 DEF ReadRetry
  <2>3. /\ WakeupWriter(b).io = b.io /\ WakeupWriter(b).in_req = b.in_req
        /\ WakeupWriter(b).owed = b.owed
        /\ WakeupWriter(b).working = b.working
        /\ WakeupWriter(b).write_queue = b.write_queue
    BY <1>0 DEF WakeupWriter, Att
  <2> HIDE DEF b
  <2>4. ReqInv(att')
    BY <2>1, <2>2, <2>3 DEF ReqInv
  <2> QED
    BY <1>0, <1>3, <2>4, ReadServed DEF ReadRetry
<1>4. CASE ReadRsp
  <2>1. att.pending_req \in Op
    BY OpSets, <1>0, <1>4, Zenon DEF Att, ReadRsp
  <2>2. PICK a \in AfterCall(att, att.pending_req) : att' = EndReq(a)
    BY <1>4 DEF ReadRsp
  <2>3. a \in Att /\ Harmless(att, a) /\ a.pending_req # None
    BY <1>0, <1>4, <2>1, <2>2, AfterCallHarmless DEF Harmless, ReadRsp
  <2>4. ReqInv(a)
    BY <1>0, <2>3, HarmlessReq
  <2> DEFINE d == Destroy(a, a.pending_req)
             n == [d EXCEPT !.pending_req = None]
  <2>5. a.pending_req \in Op
    BY OpSets, <2>3, Zenon DEF Att
  <2>6. d \in Att /\ SameLink(a, d) /\ SameQueues(a, d)
    BY <2>3, <2>5, DestroyType, DestroyFrame
  <2> HIDE DEF d
  <2>7. n \in Att /\ SameLink(d, n) /\ n.write_queue = d.write_queue
    BY <2>6 DEF Att, SameLink
  <2>8. ReqInv(n)
    BY <2>4, <2>6, <2>7, SameReq DEF SameLink, SameQueues
  <2> HIDE DEF n
  <2>9. ReqInv(WakeupWriter(n))
    BY <2>7, <2>8, WakeupWriterFrame, SameReq DEF SameQueues
  <2>10. att' = WakeupWriter(n)
    BY <2>2 DEF EndReq, d, n
  <2> QED
    BY <1>0, <1>4, <2>9, <2>10, ReadServed DEF ReadRsp
<1>5. CASE ReadConf
  <2>1. att.pending_ind \in Op
    BY OpSets, <1>0, <1>5, Zenon DEF Att, ReadConf
  <2>2. PICK a \in AfterCall(att, att.pending_ind) : att' = EndInd(a)
    BY <1>5 DEF ReadConf
  <2>3. a \in Att /\ Harmless(att, a) /\ a.pending_ind # None
    BY <1>0, <1>5, <2>1, <2>2, AfterCallHarmless DEF Harmless, ReadConf
  <2>4. ReqInv(a)
    BY <1>0, <2>3, HarmlessReq
  <2> DEFINE d == Destroy(a, a.pending_ind)
             n == [d EXCEPT !.pending_ind = None]
  <2>5. a.pending_ind \in Op
    BY OpSets, <2>3, Zenon DEF Att
  <2>6. d \in Att /\ SameLink(a, d) /\ SameQueues(a, d)
    BY <2>3, <2>5, DestroyType, DestroyFrame
  <2> HIDE DEF d
  <2>7. n \in Att /\ SameLink(d, n) /\ n.write_queue = d.write_queue
    BY <2>6 DEF Att, SameLink
  <2>8. ReqInv(n)
    BY <2>4, <2>6, <2>7, SameReq DEF SameLink, SameQueues
  <2> HIDE DEF n
  <2>9. ReqInv(WakeupWriter(n))
    BY <2>7, <2>8, WakeupWriterFrame, SameReq DEF SameQueues
  <2>10. att' = WakeupWriter(n)
    BY <2>2 DEF EndInd, d, n
  <2> QED
    BY <1>0, <1>5, <2>9, <2>10, ReadServed DEF ReadConf
<1>6. CASE ReadReq
  <2> DEFINE r == peerTx - Len(rx) + 1
             t == TakeRequest(att, r)
  <2>1. r \in Requests
    BY <1>0, <1>6, ReadType DEF ReadReq
  <2>2. ~att.in_req
    BY <1>6 DEF ReadReq
  <2> HIDE DEF r
  <2>3. att.owed \cup {r} \in SUBSET Requests
    BY <1>0, <2>1 DEF Att
  <2>4. t \in Att
    BY <1>0, <2>3, Zenon DEF TakeRequest, Att
  <2>5. PICK a \in Reactions(t) :
            \/ att' = Send(a, "RSP", r)
            \/ att' = [a EXCEPT !.working = @ \cup {r}]
    BY <1>6 DEF ReadReq, r
  <2>6. a \in Att /\ Harmless(t, a)
    BY <2>4, <2>5, ReactionsHarmless
  <2>7. /\ t.io = att.io /\ t.in_req = TRUE /\ t.owed = att.owed \cup {r}
        /\ t.working = att.working /\ t.write_queue = att.write_queue
    BY <1>0 DEF TakeRequest, Att
  <2> HIDE DEF t
  <2>8. CASE att.io = "open"
    <3>1. att.owed = {} /\ att.working = {} /\ NoRsp(att.write_queue)
      BY <1>0, <2>2, <2>8 DEF ReqInv, OneRsp, NoRsp
    <3>2. /\ a.io = "open" /\ a.in_req /\ a.owed = {r} /\ a.working = {}
          /\ NoRsp(a.write_queue)
      BY <2>6, <2>7, <2>8, <3>1 DEF Harmless, SameLink
    <3>3. ReqInv(Send(a, "RSP", r))
      BY <2>1, <2>6, <3>2, AnswerReq
    <3>4. ReqInv([a EXCEPT !.working = @ \cup {r}])
      <4> DEFINE w == [a EXCEPT !.working = @ \cup {r}]
      <4>1. /\ w.in_req /\ w.owed = {r} /\ w.working = {r}
            /\ NoRsp(w.write_queue)
        BY <2>6, <3>2 DEF Att
      <4> HIDE DEF w
      <4>2. ReqInv(w)
        BY <4>1 DEF ReqInv, NoRsp, OneRsp
      <4> QED
        BY <4>2 DEF w
    <3> QED
      BY <1>0, <1>6, <2>5, <3>3, <3>4, ReadServed DEF ReadReq
  <2>9. CASE att.io # "open"
    <3>1. a.io # "open"
      BY <2>6, <2>7, <2>9 DEF Harmless, SameLink
    <3>2. att'.io # "open"
      BY <2>5, <2>6, <3>1 DEF Send, Att
    <3> QED
      BY <1>0, <1>6, <3>2, ReadServed DEF ReadReq, ReqInv
  <2> QED
    BY <2>8, <2>9
<1>7. CASE ReadSecondReq
  <2>1. ReqInv([att EXCEPT !.reader = FALSE])
    BY <1>0 DEF ReqInv, Att
  <2> QED
    BY <1>0, <1>7, <2>1, ReadServed DEF ReadSecondReq
<1>8. CASE ReadCmd
  <2>1. Harmless(att, att')
    BY <1>0, <1>8, ReactionsHarmless DEF ReadCmd
  <2> QED
    BY <1>0, <1>8, <2>1, ReadServed, HarmlessReq DEF ReadCmd
<1>9. CASE ReadUnhandled
  BY <1>0, <1>9, ReadServed DEF ReadUnhandled, Read, Unhandled
<1> QED
  BY <1>1, <1>2, <1>3, <1>4, <1>5, <1>6, <1>7, <1>8, <1>9 DEF Reading

LEMMA PoppedReq ==
    ASSUME NEW a \in Att, Sendable(a), ReqInv(a)
    PROVE  ReqInv(Popped(a)) /\ SameLink(a, Popped(a))
<1> DEFINE p == Popped(a)
<1>0. /\ Picked(a) \in {"write", "req", "ind"}
      /\ Picked(a) = "write" <=> a.write_queue # << >>
  BY DEF Picked
<1>1. /\ SameLink(a, p)
      /\ p.write_queue = IF a.write_queue = << >> THEN a.write_queue
                         ELSE Tail(a.write_queue)
  <2>1. CASE a.write_queue # << >>
    <3>1. p = [a EXCEPT !.write_queue = Tail(@)]
      BY <1>0, <2>1 DEF Popped
    <3> QED
      BY <2>1, <3>1 DEF Att, SameLink
  <2>2. CASE a.write_queue = << >>
    <3>1. p \in {[a EXCEPT !.req_queue = Tail(@)],
                 [a EXCEPT !.ind_queue = Tail(@)]}
      BY <1>0, <2>2 DEF Popped
    <3> QED
      BY <2>2, <3>1 DEF Att, SameLink
  <2> QED
    BY <2>1, <2>2
<1>2. ASSUME a.write_queue # << >>
      PROVE  /\ OneRsp(a.write_queue, a.owed)
                    => OneRsp(Tail(a.write_queue), a.owed)
             /\ NoRsp(a.write_queue) => NoRsp(Tail(a.write_queue))
  <2>1. a.write_queue \in Seq(WriteOp)
    BY DEF Att
  <2>2. /\ DOMAIN a.write_queue = 1 .. Len(a.write_queue)
        /\ Len(a.write_queue) \in Nat \ {0}
        /\ Len(Tail(a.write_queue)) = Len(a.write_queue) - 1
        /\ Tail(a.write_queue) \in Seq(WriteOp)
        /\ \A k \in 1 .. Len(a.write_queue) - 1 :
              Tail(a.write_queue)[k] = a.write_queue[k + 1]
    BY <1>2, <2>1, LenProperties, HeadTailProperties, EmptySeq
  <2>3. DOMAIN Tail(a.write_queue) = 1 .. Len(a.write_queue) - 1
    BY <2>2, LenProperties
  <2> QED
    BY <1>2, <2>1, <2>2, <2>3, TailRsp DEF NoRsp
<1> HIDE DEF p
<1>3. ReqInv(p)
  BY <1>1, <1>2 DEF ReqInv, SameLink
<1> QED
  BY <1>1, <1>3 DEF p

LEMMA TransmittedReq ==
    ASSUME NEW a \in Att, Sendable(a), ReqInv(a)
    PROVE  ReqInv(Transmitted(Popped(a), NextOp(a)))
<1> DEFINE p == Popped(a)
           op == NextOp(a)
<1>1. p \in Att /\ op \in Op
  BY PickedType
<1>2. SameLink(a, p) /\ ReqInv(p)
  BY PoppedReq
<1>3. CASE op.type = "RSP"
  <2>1. /\ a.write_queue # << >> /\ op = Head(a.write_queue)
        /\ p.write_queue = Tail(a.write_queue)
    <3>1. a.write_queue # << >>
      <4>1. a.req_queue \in Seq(ReqOp) /\ a.ind_queue \in Seq(IndOp)
        BY DEF Att
      <4>2. /\ a.req_queue # << >> => Head(a.req_queue) \in ReqOp
            /\ a.ind_queue # << >> => Head(a.ind_queue) \in IndOp
        BY <4>1, HeadTailProperties
      <4> QED
        BY <1>3, <4>2, OpSets DEF NextOp, Picked, Sendable
    <3> QED
      BY <3>1 DEF Picked, Popped, NextOp, Att
  <2> DEFINE o == p.owed \ {op.answers}
             n == [p EXCEPT !.in_req = FALSE, !.owed = o]
  <2>2. a.write_queue \in Seq(WriteOp)
    BY DEF Att
  <2>3. 1 \in DOMAIN a.write_queue /\ a.write_queue[1] = op
    BY <2>1, <2>2, LenProperties, EmptySeq, HeadTailProperties
  <2> HIDE DEF p, op
  <2>4. ~NoRsp(a.write_queue)
    BY <1>3, <2>3 DEF NoRsp
  <2>5. a.io = "open" => /\ NoRsp(p.write_queue)
                         /\ op.answers \in a.owed
                         /\ a.working = {}
    BY <1>3, <2>1, <2>2, <2>4, TailRsp DEF ReqInv
  <2>6. a.io = "open" => o = {}
    BY <1>2, <2>5 DEF ReqInv, SameLink
  <2>7. o \in SUBSET Requests
    BY <1>1 DEF Att
  <2>8. Transmitted(p, op) = Destroy(n, op)
    BY <1>3 DEF Transmitted
  <2> HIDE DEF o
  <2>9. n \in Att
    BY <1>1, <2>7, Zenon DEF Att
  <2>10. /\ n.io = p.io /\ ~n.in_req /\ n.working = p.working
         /\ n.owed = o /\ n.write_queue = p.write_queue
    BY <1>1 DEF Att
  <2> HIDE DEF n
  <2>11. ReqInv(n)
    BY <1>2, <2>5, <2>6, <2>10 DEF ReqInv, OneRsp, NoRsp, SameLink
  <2>12. ReqInv(Destroy(n, op))
    BY <1>1, <2>9, <2>11, DestroyFrame, SameReq DEF SameQueues
  <2> QED
    BY <2>8, <2>12 DEF p, op
<1>4. CASE op.type # "RSP"
  <2> HIDE DEF p, op
  <2>1. Transmitted(p, op) \in {[p EXCEPT !.pending_req = op],
                                [p EXCEPT !.pending_ind = op],
                                Destroy(p, op)}
    BY <1>4 DEF Transmitted
  <2>2. ReqInv(Destroy(p, op))
    BY <1>1, <1>2, DestroyFrame, SameReq DEF SameQueues
  <2>3. /\ ReqInv([p EXCEPT !.pending_req = op])
        /\ ReqInv([p EXCEPT !.pending_ind = op])
    BY <1>1, <1>2 DEF ReqInv, Att
  <2>4. ReqInv(Transmitted(p, op))
    BY <2>1, <2>2, <2>3
  <2> QED
    BY <2>4 DEF p, op
<1> QED
  BY <1>3, <1>4

LEMMA WritingReq ==
    ASSUME SeqInv, Writing
    PROVE  ServedPdus' /\ ReqInv(att')
<1>0. att \in Att /\ ServedPdus /\ ReqInv(att)
  BY DEF SeqInv, TypeOK
<1>1. Write => ServedPdus'
  BY <1>0 DEF Write, ServedPdus
<1>2. CASE WriteSend
  BY <1>0, <1>1, <1>2, TransmittedReq DEF WriteSend
<1>3. CASE WriteFail
  <2> DEFINE op == NextOp(att)
  <2>1. Popped(att) \in Att /\ op \in Op /\ ReqInv(Popped(att))
    BY <1>0, <1>3, PickedType, PoppedReq DEF WriteFail
  <2>2. PICK a \in AfterCall(Popped(att), op) :
            att' = [Destroy(a, op) EXCEPT !.lost = @ \/ op.answers # 0]
    BY <1>3 DEF WriteFail
  <2> HIDE DEF op
  <2> DEFINE d == Destroy(a, op)
  <2>3. a \in Att /\ ReqInv(a)
    BY <2>1, <2>2, AfterCallHarmless, HarmlessReq
  <2>4. d \in Att /\ ReqInv(d)
    BY <2>1, <2>3, DestroyType, DestroyFrame, SameReq DEF SameQueues
  <2>5. att' = [d EXCEPT !.lost = @ \/ op.answers # 0]
    BY <2>2
  <2> HIDE DEF d
  <2>6. ReqInv(att')
    BY <2>4, <2>5 DEF ReqInv, Att
  <2> QED
    BY <1>1, <1>3, <2>6 DEF WriteFail
<1>4. CASE WriteIdle
  <2>1. ReqInv([att EXCEPT !.writer = FALSE, !.writer_active = FALSE])
    BY <1>0 DEF ReqInv, Att
  <2> QED
    BY <1>1, <1>4, <2>1 DEF WriteIdle
<1> QED
  BY <1>2, <1>3, <1>4 DEF Writing

LEMMA OtherReq ==
    ASSUME SeqInv,
           Disconnect \/ TimeoutReq \/ TimeoutInd \/ UserCall \/ Respond \/ Unref
    PROVE  ServedPdus' /\ ReqInv(att')
<1>0. att \in Att /\ ServedPdus /\ ReqInv(att)
  BY DEF SeqInv, TypeOK
<1>1. ServedPdus'
  BY <1>0 DEF Disconnect, TimeoutReq, TimeoutInd, UserCall, Respond, Unref,
              ServedPdus
<1>2. CASE Disconnect
  <2>1. att'.io = "null"
    BY <1>0, <1>2, DisconnectLeaves, DisconnectedIs
  <2> QED
    BY <1>1, <2>1 DEF ReqInv
<1>3. CASE TimeoutReq
  <2>1. att.pending_req \in Op
    BY OpSets, <1>0, <1>3, Zenon DEF Att, TimeoutReq
  <2> DEFINE d == Destroy(att, att.pending_req)
  <2>2. d \in Att /\ ReqInv(d)
    BY <1>0, <2>1, DestroyType, DestroyFrame, SameReq DEF SameQueues
  <2>3. att' = [d EXCEPT !.pending_req = None]
    BY <1>3 DEF TimeoutReq
  <2> HIDE DEF d
  <2> QED
    BY <1>1, <2>2, <2>3 DEF ReqInv, Att
<1>4. CASE TimeoutInd
  <2>1. att.pending_ind \in Op
    BY OpSets, <1>0, <1>4, Zenon DEF Att, TimeoutInd
  <2> DEFINE d == Destroy(att, att.pending_ind)
  <2>2. d \in Att /\ ReqInv(d)
    BY <1>0, <2>1, DestroyType, DestroyFrame, SameReq DEF SameQueues
  <2>3. att' = [d EXCEPT !.pending_ind = None]
    BY <1>4 DEF TimeoutInd
  <2> HIDE DEF d
  <2> QED
    BY <1>1, <2>2, <2>3 DEF ReqInv, Att
<1>5. CASE UserCall
  <2>1. CASE att' \in Reactions(att)
    BY <1>0, <1>1, <2>1, ReactionsHarmless, HarmlessReq
  <2>2. CASE att' = CancelAll(att)
    <3>1. SameLink(att, att') /\ att'.write_queue = << >>
      BY <1>0, <2>2, CancelAllFrame
    <3>2. NoRsp(att'.write_queue) /\ OneRsp(att'.write_queue, att.owed)
      BY <3>1 DEF NoRsp, OneRsp
    <3> QED
      BY <1>0, <1>1, <3>1, <3>2 DEF ReqInv, SameLink
  <2> QED
    BY <1>5, <2>1, <2>2 DEF UserCall, Reactions
<1>6. CASE Respond
  <2>1. PICK r \in att.working :
            att' = Send([att EXCEPT !.working = @ \ {r}], "RSP", r)
    BY <1>6 DEF Respond
  <2> DEFINE w == att.working \ {r}
             b == [att EXCEPT !.working = w]
  <2>2. r \in Requests /\ w \in SUBSET Requests
    BY <1>0, <2>1 DEF Att
  <2>3. att.io = "open" => /\ att.owed = {r} /\ w = {} /\ att.in_req
                           /\ NoRsp(att.write_queue)
    BY <1>0, <2>1 DEF ReqInv
  <2> HIDE DEF w
  <2>4. b \in Att
    BY <1>0, <2>2, Zenon DEF Att
  <2>5. /\ b.io = att.io /\ b.owed = att.owed /\ b.working = w
        /\ b.in_req = att.in_req /\ b.write_queue = att.write_queue
    BY <1>0 DEF Att
  <2>6. att' = Send(b, "RSP", r)
    BY <2>1 DEF w
  <2> HIDE DEF b
  <2>7. CASE att.io = "open"
    BY <1>1, <2>2, <2>3, <2>4, <2>5, <2>6, <2>7, AnswerReq
  <2>8. CASE att.io # "open"
    <3>1. att' = b
      BY <2>5, <2>6, <2>8 DEF Send
    <3> QED
      BY <1>1, <2>5, <2>8, <3>1 DEF ReqInv
  <2> QED
    BY <2>7, <2>8
<1>7. CASE Unref
  <2> DEFINE d == IoDestroyed(CancelAll(att), "freed")
  <2>1. d \in Att /\ d.io = "freed"
    BY <1>0, CancelAllType, IoDestroyedType, ZenonT(30) DEF IoDestroyed, Att
  <2>2. att' = [d EXCEPT !.pending_req = None, !.pending_ind = None,
                         !.owed = {}]
    BY <1>7 DEF Unref
  <2> HIDE DEF d
  <2> QED
    BY <1>1, <2>1, <2>2 DEF ReqInv, Att
<1> QED
  BY <1>2, <1>3, <1>4, <1>5, <1>6, <1>7

LEMMA EnvironmentReq ==
    ASSUME SeqInv, PeerPdus \cap Unhandled = {},
           (\E writable \in BOOLEAN : Poll(writable)) \/ PeerSend \/ PeerLeave
    PROVE  ServedPdus' /\ ReqInv(att')
<1>1. att' = att /\ ReqInv(att)
  BY DEF SeqInv, Poll, PeerSend, PeerLeave
<1>2. CASE PeerSend
  <2>1. PICK p \in PeerPdus : rx' = Append(rx, p)
    BY <1>2 DEF PeerSend
  <2>2. rx \in Seq(Pdu) /\ p \in Pdu /\ p \notin Unhandled /\ ServedPdus
    BY PeerAssumption DEF SeqInv, TypeOK
  <2>3. /\ DOMAIN rx = 1 .. Len(rx) /\ Len(rx) \in Nat
        /\ DOMAIN Append(rx, p) = 1 .. Len(rx) + 1
        /\ \A k \in 1 .. Len(rx) + 1 :
              Append(rx, p)[k] = IF k <= Len(rx) THEN rx[k] ELSE p
    BY <2>2, LenProperties
  <2>4. ServedPdus'
    BY <2>1, <2>2, <2>3 DEF ServedPdus
  <2> QED
    BY <1>1, <2>4
<1>3. CASE rx' = rx
  BY <1>1, <1>3 DEF SeqInv, ServedPdus
<1> QED
  BY <1>1, <1>2, <1>3 DEF Poll, PeerLeave

LEMMA SeqInvNext ==
    ASSUME PeerPdus \cap Unhandled = {}
    PROVE  SeqInv /\ [Next]_vars => SeqInv'
<1> SUFFICES ASSUME SeqInv, [Next]_vars PROVE SeqInv'
  OBVIOUS
<1>1. TypeOK'
  BY NextType DEF SeqInv
<1>2. CASE UNCHANGED vars
  BY <1>1, <1>2 DEF vars, SeqInv, ServedPdus
<1>3. CASE Next
  <2>1. ServedPdus' /\ ReqInv(att')
    BY <1>3, ReadingReq, WritingReq, OtherReq, EnvironmentReq DEF Next
  <2> QED
    BY <1>1, <2>1 DEF SeqInv
<1> QED
  BY <1>2, <1>3

(* in_req is set exactly while one request waits for its answer, if the    *)
(* peer sends no PDU that can_read_data answers itself: handle_notify and  *)
(* respond_not_supported are what the assumption leaves out, and with them *)
(* the property fails. can_read_data sets in_req, can_write_data clears it.*)
THEOREM SequentialRequests ==
    ASSUME PeerPdus \cap Unhandled = {}
    PROVE  Spec => []InReqMeansOwed
<1>1. Init => SeqInv
  <2> SUFFICES ASSUME Init PROVE SeqInv
    OBVIOUS
  <2>1. TypeOK
    BY InitType
  <2>2. ReqInv(att) /\ ServedPdus
    BY DEF Init, ReqInv, ServedPdus, NoRsp, OneRsp
  <2> QED
    BY <2>1, <2>2 DEF SeqInv
<1>2. SeqInv /\ [Next]_vars => SeqInv'
  BY SeqInvNext
<1>3. SeqInv => InReqMeansOwed
  BY DEF SeqInv, ReqInv, InReqMeansOwed
<1> QED
  BY <1>1, <1>2, <1>3, PTL DEF Spec

-----------------------------------------------------------------------------
(* The invariant of the ops                                                *)

\* SendOrder of a bearer, and every id was given out
Ordered(a) ==
    /\ Increasing(a.req_queue)
    /\ Increasing(a.ind_queue)
    /\ Increasing(a.write_queue)
    /\ a.pending_req # None =>
           \A op \in ToSet(a.req_queue) : a.pending_req.id < op.id
    /\ a.pending_ind # None =>
           \A op \in ToSet(a.ind_queue) : a.pending_ind.id < op.id

\* X: the ops in the hands of a handler; c: the id of the op whose callback
\* has run and whose destroy has not, or 0
Tracked(a, X, c) ==
    LET H == Held(a) \cup X
    IN  /\ X \cap Held(a) = {}
        /\ \A p, q \in H : p.id = q.id => p = q
        /\ \A op \in H : op \in Op /\ op.id < a.next_send_id
        /\ \A i \in Ids :
              /\ a.fate[i] = "unused" <=> i >= a.next_send_id
              /\ a.fate[i] # "twice"
              /\ a.fate[i] = "called" => i = c
              /\ a.fate[i] \in {"open", "called"} <=>
                     \E op \in H : op.id = i /\ op.hooked

Sound(a, X, c) == Ordered(a) /\ Tracked(a, X, c)

-----------------------------------------------------------------------------
(* Queues of ops *)

LEMMA AppendQueue ==
    ASSUME NEW T, T \subseteq Op, NEW q \in Seq(T), NEW e \in T, Increasing(q),
           \A p \in ToSet(q) : p.id < e.id
    PROVE  /\ Increasing(Append(q, e))
           /\ ToSet(Append(q, e)) = ToSet(q) \cup {e}
<1>1. /\ DOMAIN q = 1 .. Len(q) /\ Len(q) \in Nat
      /\ DOMAIN Append(q, e) = 1 .. Len(q) + 1
      /\ \A k \in 1 .. Len(q) + 1 :
            Append(q, e)[k] = IF k <= Len(q) THEN q[k] ELSE e
  BY LenProperties
<1>2. ToSet(Append(q, e)) = ToSet(q) \cup {e}
  <2>1. \A x \in ToSet(Append(q, e)) : x \in ToSet(q) \cup {e}
    BY <1>1, SMT DEF ToSet
  <2>2. \A k \in DOMAIN q :
           k \in DOMAIN Append(q, e) /\ Append(q, e)[k] = q[k]
    BY <1>1
  <2>3. \A x \in ToSet(q) : x \in ToSet(Append(q, e))
    BY <2>2, Zenon DEF ToSet
  <2>4. e \in ToSet(Append(q, e))
    <3>1. Len(q) + 1 \in DOMAIN Append(q, e) /\ Append(q, e)[Len(q) + 1] = e
      BY <1>1
    <3> QED
      BY <3>1, Zenon DEF ToSet
  <2> QED
    BY <2>1, <2>3, <2>4, Zenon
<1>3. Increasing(Append(q, e))
  BY <1>1, SMT DEF Increasing, ToSet
<1> QED
  BY <1>2, <1>3

LEMMA RemoveQueue ==
    ASSUME NEW T, T \subseteq Op, NEW q \in Seq(T), NEW i \in DOMAIN q,
           Increasing(q)
    PROVE  /\ RemoveAt(q, i) \in Seq(T)
           /\ Increasing(RemoveAt(q, i))
           /\ ToSet(RemoveAt(q, i)) = ToSet(q) \ {q[i]}
           /\ q[i] \in ToSet(q)
<1> DEFINE n == RemoveAt(q, i)
<1>1. DOMAIN q = 1 .. Len(q) /\ Len(q) \in Nat /\ i \in 1 .. Len(q)
  BY LenProperties
<1>2. /\ n \in Seq(T) /\ DOMAIN n = 1 .. Len(q) - 1
      /\ \A k \in 1 .. Len(q) - 1 : n[k] = IF k < i THEN q[k] ELSE q[k + 1]
  BY RemoveAtElements
<1> HIDE DEF n
<1>3. \A j \in DOMAIN q : q[j].id \in Int
  BY <1>1, SMT DEF Op, OpOf, Ids
<1>4. Increasing(n)
  <2>1. ASSUME NEW j \in 1 .. Len(q) - 1, NEW k \in 1 .. Len(q) - 1, j < k
        PROVE  n[j].id < n[k].id
    <3> DEFINE f(m) == IF m < i THEN m ELSE m + 1
    <3>1. f(j) \in DOMAIN q /\ f(k) \in DOMAIN q /\ f(j) < f(k)
      BY <1>1, <2>1
    <3>2. n[j] = q[f(j)] /\ n[k] = q[f(k)]
      BY <1>2, <2>1
    <3> HIDE DEF f
    <3> QED
      BY <3>1, <3>2, Zenon DEF Increasing
  <2> QED
    BY <1>2, <2>1, Zenon DEF Increasing
<1>5. \A x \in ToSet(n) : x \in ToSet(q) /\ x # q[i]
  <2>1. \A k \in DOMAIN n : n[k] \in ToSet(q)
    BY <1>1, <1>2, SMT DEF ToSet
  <2>2. \A k \in DOMAIN n : n[k] # q[i]
    <3>1. ASSUME NEW k \in 1 .. Len(q) - 1
          PROVE  \E j \in DOMAIN q : n[k] = q[j] /\ (j < i \/ i < j)
      <4>1. CASE k < i
        <5>1. k \in DOMAIN q /\ n[k] = q[k]
          BY <1>1, <1>2, <4>1
        <5> QED
          BY <4>1, <5>1
      <4>2. CASE ~(k < i)
        <5>1. k + 1 \in DOMAIN q /\ i < k + 1 /\ n[k] = q[k + 1]
          BY <1>1, <1>2, <4>2
        <5> QED
          BY <5>1
      <4> QED
        BY <4>1, <4>2
    <3>2. ASSUME NEW j \in DOMAIN q, j < i \/ i < j
          PROVE  q[j] # q[i]
      <4>1. q[j].id < q[i].id \/ q[i].id < q[j].id
        BY <3>2, Zenon DEF Increasing
      <4>2. q[j].id # q[i].id
        BY <1>3, <4>1
      <4> QED
        BY <4>2
    <3> QED
      BY <1>2, <3>1, <3>2
  <2> QED
    BY <2>1, <2>2, Zenon DEF ToSet
<1>6. \A x \in ToSet(q) : x # q[i] => x \in ToSet(n)
  <2>1. ASSUME NEW j \in DOMAIN q, j # i
        PROVE  \E k \in DOMAIN n : n[k] = q[j]
    <3>1. CASE j < i
      BY <1>1, <1>2, <2>1, <3>1
    <3>2. CASE j > i
      <4>1. j - 1 \in DOMAIN n /\ n[j - 1] = q[j]
        BY <1>1, <1>2, <2>1, <3>2
      <4> QED
        BY <4>1
    <3> QED
      BY <1>1, <2>1, <3>1, <3>2
  <2> QED
    BY <2>1, Zenon DEF ToSet
<1> QED
  BY <1>2, <1>4, <1>5, <1>6, Zenon DEF ToSet, n

LEMMA TailQueue ==
    ASSUME NEW T, T \subseteq Op, NEW q \in Seq(T), q # << >>, Increasing(q)
    PROVE  /\ Increasing(Tail(q))
           /\ ToSet(Tail(q)) = ToSet(q) \ {Head(q)}
           /\ Head(q) \in ToSet(q)
           /\ \A p \in ToSet(Tail(q)) : Head(q).id < p.id
<1>1. /\ DOMAIN q = 1 .. Len(q) /\ Len(q) \in Nat \ {0}
      /\ Tail(q) \in Seq(T) /\ Len(Tail(q)) = Len(q) - 1
      /\ \A k \in 1 .. Len(q) - 1 : Tail(q)[k] = q[k + 1]
      /\ Head(q) = q[1]
  BY LenProperties, HeadTailProperties, EmptySeq
<1>2. DOMAIN Tail(q) = 1 .. Len(q) - 1
  BY <1>1, LenProperties
<1>3. \A j \in DOMAIN q : q[j].id \in Int
  BY <1>1, SMT DEF Op, OpOf, Ids
<1>4. Increasing(Tail(q)) /\ Head(q) \in ToSet(q)
  BY <1>1, <1>2, SMT DEF Increasing, ToSet
<1>5. \A p \in ToSet(Tail(q)) : Head(q).id < p.id /\ p \in ToSet(q)
  BY <1>1, <1>2, SMT DEF Increasing, ToSet
<1>6. \A p \in ToSet(q) : p # Head(q) => p \in ToSet(Tail(q))
  <2>1. ASSUME NEW j \in DOMAIN q, j # 1
        PROVE  \E k \in DOMAIN Tail(q) : Tail(q)[k] = q[j]
    <3>1. j - 1 \in DOMAIN Tail(q) /\ Tail(q)[j - 1] = q[j]
      BY <1>1, <1>2, <2>1
    <3> QED
      BY <3>1
  <2>2. \A j \in DOMAIN q : q[j] # Head(q) => j # 1
    BY <1>1, Zenon
  <2> QED
    BY <2>1, <2>2, Zenon DEF ToSet
<1>7. \A p \in ToSet(Tail(q)) : p # Head(q)
  BY <1>1, <1>3, <1>5, SMT
<1> QED
  BY <1>4, <1>5, <1>6, <1>7, Zenon

LEMMA ConsQueue ==
    ASSUME NEW T, T \subseteq Op, NEW q \in Seq(T), NEW e \in T, Increasing(q),
           \A p \in ToSet(q) : e.id < p.id
    PROVE  /\ Increasing(Cons(e, q))
           /\ ToSet(Cons(e, q)) = ToSet(q) \cup {e}
<1> DEFINE n == Cons(e, q)
<1>1. /\ DOMAIN q = 1 .. Len(q) /\ Len(q) \in Nat
  BY LenProperties
<1>2. /\ n \in Seq(T) /\ Len(n) = Len(q) + 1
      /\ n[1] = e /\ \A k \in 2 .. Len(q) + 1 : n[k] = q[k - 1]
  <2>1. /\ <<e>> \in Seq(T) /\ Len(<<e>>) = 1 /\ <<e>>[1] = e
    OBVIOUS
  <2> QED
    BY <1>1, <2>1, ConcatProperties DEF Cons
<1>3. DOMAIN n = 1 .. Len(q) + 1
  BY <1>1, <1>2, LenProperties
<1> HIDE DEF n
<1>4. \A k \in DOMAIN n : k = 1 \/ (k - 1 \in DOMAIN q /\ n[k] = q[k - 1])
  BY <1>1, <1>2, <1>3
<1>5. \A p \in ToSet(n) : p = e \/ p \in ToSet(q)
  BY <1>2, <1>4, ZenonT(30) DEF ToSet
<1>6. e \in ToSet(n)
  BY <1>1, <1>2, <1>3, SMT DEF ToSet
<1>7. \A p \in ToSet(q) : p \in ToSet(n)
  <2>1. ASSUME NEW j \in DOMAIN q
        PROVE  j + 1 \in DOMAIN n /\ n[j + 1] = q[j]
    BY <1>1, <1>2, <1>3
  <2> QED
    BY <2>1, Zenon DEF ToSet
<1>8. Increasing(n)
  <2>1. ASSUME NEW j \in DOMAIN n, NEW k \in DOMAIN n, j < k
        PROVE  n[j].id < n[k].id
    <3>1. k - 1 \in DOMAIN q /\ n[k] = q[k - 1]
      BY <1>1, <1>2, <1>3, <2>1
    <3>2. CASE j = 1
      BY <1>2, <3>1, <3>2, Zenon DEF ToSet
    <3>3. CASE j # 1
      <4>1. /\ j - 1 \in DOMAIN q /\ n[j] = q[j - 1]
            /\ j - 1 < k - 1
        BY <1>1, <1>2, <1>3, <2>1, <3>3
      <4> QED
        BY <3>1, <4>1, Zenon DEF Increasing
    <3> QED
      BY <3>2, <3>3
  <2> QED
    BY <2>1, Zenon DEF Increasing
<1> QED
  BY <1>5, <1>6, <1>7, <1>8, Zenon DEF n

LEMMA EmptyQueue == Increasing(<< >>) /\ ToSet(<< >>) = {}
  BY DEF Increasing, ToSet

-----------------------------------------------------------------------------
(* What happens to an op *)

\* The fate of an op whose destroy hook runs, if it still has one
DestroyedFate(a, op) ==
    IF op.hooked THEN [a.fate EXCEPT ![op.id] = AfterDestroy[a.fate[op.id]]]
                 ELSE a.fate

\* b has the ops of a: they may have changed places
LEMMA OpsKept ==
    ASSUME NEW a, NEW b, NEW X, NEW Y, NEW c, Tracked(a, X, c),
           Held(b) \cup Y = Held(a) \cup X, Y \cap Held(b) = {},
           b.fate = a.fate, b.next_send_id = a.next_send_id
    PROVE  Tracked(b, Y, c)
  BY Zenon DEF Tracked

\* An op goes, or stays without its hooks; its destroy has run
LEMMA OpDestroyed ==
    ASSUME NEW a \in Att, NEW b, NEW X, NEW Y, NEW c, Tracked(a, X, c),
           NEW op \in Held(a) \cup X, NEW Z \in SUBSET {Stripped(op)},
           Held(b) \cup Y = ((Held(a) \cup X) \ {op}) \cup Z,
           Y \cap Held(b) = {},
           b.fate = DestroyedFate(a, op), b.next_send_id = a.next_send_id
    PROVE  Tracked(b, Y, c)
<1> DEFINE H == Held(a) \cup X
           G == Held(b) \cup Y
           f == a.fate
           g == b.fate
           n == a.next_send_id
<1>1. /\ \A p, q \in H : p.id = q.id => p = q
      /\ \A p \in H : p \in Op /\ p.id < n
      /\ \A i \in Ids :
            /\ f[i] = "unused" <=> i >= n
            /\ f[i] # "twice"
            /\ f[i] = "called" => i = c
            /\ f[i] \in {"open", "called"} <=> \E p \in H : p.id = i /\ p.hooked
  BY Zenon DEF Tracked
<1>2. f \in [Ids -> Fate] /\ n \in Int
  BY DEF Att
<1>3. op \in H /\ op \in Op /\ op.id \in Ids
  BY <1>1, SMT DEF Op, OpOf
<1>4. /\ Stripped(op) \in Op /\ Stripped(op).id = op.id
      /\ Stripped(op).hooked = FALSE
  BY <1>3, StrippedType, SMT DEF Stripped, Op, OpOf
<1>5. g = IF op.hooked THEN [f EXCEPT ![op.id] = AfterDestroy[f[op.id]]] ELSE f
  BY Zenon DEF DestroyedFate
<1>6. /\ \A p \in G : (p \in H /\ p # op) \/ p = Stripped(op)
      /\ \A p \in H : p # op => p \in G
  BY Zenon
<1>7. b.next_send_id = n
  OBVIOUS
<1> HIDE DEF H, G, f, g, n
<1>8. \A p, q \in G : p.id = q.id => p = q
  BY <1>1, <1>3, <1>4, <1>6, Zenon
<1>9. \A p \in G : p \in Op /\ p.id < n
  BY <1>1, <1>3, <1>4, <1>6, Zenon
<1>10. op.hooked => f[op.id] \in {"open", "called"}
  BY <1>1, <1>3, Zenon
<1>11. op.hooked => AfterDestroy[f[op.id]] \in {"dropped", "answered"}
  BY <1>10, SMT DEF AfterDestroy, Fate
<1>12. ASSUME NEW i \in Ids
       PROVE  /\ g[i] = "unused" <=> i >= n
              /\ g[i] # "twice"
              /\ g[i] = "called" => i = c
              /\ g[i] \in {"open", "called"} <=> \E p \in G : p.id = i /\ p.hooked
  <2>1. CASE i = op.id /\ op.hooked
    <3>1. g[i] \in {"dropped", "answered"}
      BY <1>2, <1>3, <1>5, <1>11, <2>1, Zenon
    <3>2. ~(i >= n)
      BY <1>1, <1>3, <2>1, <1>10, SMT
    <3>3. \A p \in G : p.id = i => ~p.hooked
      BY <1>1, <1>3, <1>4, <1>6, <2>1, Zenon
    <3> QED
      BY <3>1, <3>2, <3>3, SMT
  <2>2. CASE ~(i = op.id /\ op.hooked)
    <3>1. g[i] = f[i]
      BY <1>2, <1>3, <1>5, <2>2, SMT
    <3>2. (\E p \in G : p.id = i /\ p.hooked) <=> \E p \in H : p.id = i /\ p.hooked
      BY <1>4, <1>6, <2>2, Zenon
    <3> QED
      BY <1>1, <3>1, <3>2, Zenon
  <2> QED
    BY <2>1, <2>2
<1> QED
  BY <1>7, <1>8, <1>9, <1>12, Zenon DEF Tracked, G, g

\* A new op, under an id that was not used
LEMMA OpAdded ==
    ASSUME NEW a \in Att, NEW b, NEW X, NEW c, Tracked(a, X, c), NEW op \in Op,
           op.id = a.next_send_id, op.hooked,
           Held(b) = Held(a) \cup {op},
           b.fate = [a.fate EXCEPT ![op.id] = "open"],
           b.next_send_id = a.next_send_id + 1
    PROVE  Tracked(b, X, c)
<1> DEFINE H == Held(a) \cup X
           G == Held(b) \cup X
           f == a.fate
           g == b.fate
           n == a.next_send_id
<1>1. /\ \A p, q \in H : p.id = q.id => p = q
      /\ \A p \in H : p \in Op /\ p.id < n
      /\ \A i \in Ids :
            /\ f[i] = "unused" <=> i >= n
            /\ f[i] # "twice"
            /\ f[i] = "called" => i = c
            /\ f[i] \in {"open", "called"} <=> \E p \in H : p.id = i /\ p.hooked
  BY Zenon DEF Tracked
<1>2. f \in [Ids -> Fate] /\ n \in Int /\ op.id \in Ids /\ op.id = n
  BY DEF Att, Op, OpOf
<1>3. G = H \cup {op}
  BY Zenon
<1>4. X \cap Held(b) = {}
  <2>1. op \notin X
    BY <1>1, <1>2, SMT
  <2> QED
    BY <2>1, Zenon DEF Tracked
<1>5. b.next_send_id = n + 1 /\ g = [f EXCEPT ![op.id] = "open"]
  OBVIOUS
<1> HIDE DEF H, G, f, g, n
<1>6. \A p \in H : p.id \in Int /\ p.id # n
  BY <1>1, <1>2, SMT DEF Op, OpOf, Ids
<1>7. \A p, q \in G : p.id = q.id => p = q
  BY <1>1, <1>2, <1>3, <1>6, Zenon
<1>8. \A p \in G : p \in Op /\ p.id < n + 1
  BY <1>1, <1>2, <1>3, <1>6, SMT
<1>9. ASSUME NEW i \in Ids
      PROVE  /\ g[i] = "unused" <=> i >= n + 1
             /\ g[i] # "twice"
             /\ g[i] = "called" => i = c
             /\ g[i] \in {"open", "called"} <=> \E p \in G : p.id = i /\ p.hooked
  <2>1. i \in Int
    BY SMT DEF Ids
  <2>2. CASE i = n
    BY <1>2, <1>3, <1>5, <2>2, SMT
  <2>3. CASE i # n
    <3>1. g[i] = f[i]
      BY <1>2, <1>5, <2>3, Zenon
    <3>2. (\E p \in G : p.id = i /\ p.hooked) <=> \E p \in H : p.id = i /\ p.hooked
      BY <1>2, <1>3, <2>3, Zenon
    <3>3. i >= n + 1 <=> i >= n
      BY <1>2, <2>1, <2>3, SMT
    <3> QED
      BY <1>1, <3>1, <3>2, <3>3, Zenon
  <2> QED
    BY <2>2, <2>3
<1>10. /\ \A p \in G : p \in Op /\ p.id < b.next_send_id
       /\ \A i \in Ids : g[i] = "unused" <=> i >= b.next_send_id
  BY <1>5, <1>8, <1>9
<1> QED
  BY <1>4, <1>7, <1>9, <1>10, Zenon DEF Tracked, G, g

\* The callback of an op runs
LEMMA OpCalled ==
    ASSUME NEW a \in Att, NEW b, NEW X, Tracked(a, X, 0),
           NEW op \in Held(a) \cup X, op.hooked,
           Held(b) = Held(a),
           b.fate = [a.fate EXCEPT ![op.id] = AfterCallback[a.fate[op.id]]],
           b.next_send_id = a.next_send_id
    PROVE  Tracked(b, X, op.id)
<1> DEFINE H == Held(a) \cup X
           f == a.fate
           g == b.fate
           n == a.next_send_id
<1>1. /\ \A p, q \in H : p.id = q.id => p = q
      /\ \A p \in H : p \in Op /\ p.id < n
      /\ \A i \in Ids :
            /\ f[i] = "unused" <=> i >= n
            /\ f[i] # "twice"
            /\ f[i] = "called" => i = 0
            /\ f[i] \in {"open", "called"} <=> \E p \in H : p.id = i /\ p.hooked
  BY Zenon DEF Tracked
<1>2. f \in [Ids -> Fate] /\ n \in Int
  BY DEF Att
<1>3. op \in H /\ op \in Op /\ op.id \in Ids
  BY <1>1, SMT DEF Op, OpOf
<1>4. f[op.id] = "open"
  BY <1>1, <1>3, SMT DEF Ids
<1>5. /\ b.next_send_id = n
      /\ g = [f EXCEPT ![op.id] = "called"]
  BY <1>4, SMT DEF AfterCallback, Fate
<1> HIDE DEF H, f, g, n
<1>6. ASSUME NEW i \in Ids
      PROVE  /\ g[i] = "unused" <=> i >= n
             /\ g[i] # "twice"
             /\ g[i] = "called" => i = op.id
             /\ g[i] \in {"open", "called"} <=> \E p \in H : p.id = i /\ p.hooked
  <2>1. CASE i = op.id
    <3>1. g[i] = "called" /\ f[i] = "open"
      BY <1>2, <1>3, <1>4, <1>5, <2>1, Zenon
    <3> QED
      BY <1>1, <2>1, <3>1, SMT
  <2>2. CASE i # op.id
    <3>1. g[i] = f[i]
      BY <1>2, <1>3, <1>5, <2>2, Zenon
    <3>2. i # 0
      BY SMT DEF Ids
    <3> QED
      BY <1>1, <3>1, <3>2, Zenon
  <2> QED
    BY <2>1, <2>2
<1> QED
  BY <1>1, <1>5, <1>6, Zenon DEF Tracked, H, g

\* The op whose callback has run is gone
LEMMA OpSettled ==
    ASSUME NEW a, NEW X, NEW c, Tracked(a, X, c),
           \A p \in Held(a) \cup X : p.id # c
    PROVE  Tracked(a, X, 0)
<1>1. \A i \in Ids : a.fate[i] # "called"
  BY Zenon DEF Tracked
<1> QED
  BY <1>1, Zenon DEF Tracked

LEMMA OpUncalled ==
    ASSUME NEW a, NEW X, NEW c, Tracked(a, X, 0)
    PROVE  Tracked(a, X, c)
<1>1. \A i \in Ids : i # 0
  BY SMT DEF Ids
<1> QED
  BY <1>1, Zenon DEF Tracked

-----------------------------------------------------------------------------
(* The functions of att.c preserve the order and the hooks *)

LEMMA SameSound ==
    ASSUME NEW a, NEW b, SameQueues(a, b), b.fate = a.fate
    PROVE  /\ Held(b) = Held(a)
           /\ \A X, c : Sound(a, X, c) => Sound(b, X, c)
<1>1. Held(b) = Held(a)
  BY Zenon DEF SameQueues, Held, Queued, Pending
<1>2. Ordered(a) => Ordered(b)
  BY Zenon DEF SameQueues, Ordered
<1>3. \A X, c : Tracked(a, X, c) => Tracked(b, X, c)
  BY <1>1, Zenon DEF SameQueues, Tracked
<1> QED
  BY <1>1, <1>2, <1>3, Zenon DEF Sound

LEMMA WakeupWriterSound ==
    ASSUME NEW a \in Att
    PROVE  /\ Held(WakeupWriter(a)) = Held(a)
           /\ \A X, c : Sound(a, X, c) => Sound(WakeupWriter(a), X, c)
  BY WakeupWriterFrame, SameSound

LEMMA DestroyView ==
    ASSUME NEW a \in Att, NEW op \in Op
    PROVE  /\ Destroy(a, op) \in Att
           /\ SameLink(a, Destroy(a, op))
           /\ SameQueues(a, Destroy(a, op))
           /\ SameWriter(a, Destroy(a, op))
           /\ Destroy(a, op).fate = DestroyedFate(a, op)
<1>1. Fated(a, op.id, AfterDestroy[a.fate[op.id]]).fate =
         [a.fate EXCEPT ![op.id] = AfterDestroy[a.fate[op.id]]]
  BY DEF Fated, Att
<1>2. Destroy(a, op).fate = DestroyedFate(a, op)
  BY <1>1, Zenon DEF Destroy, DestroyedFate
<1> QED
  BY <1>2, DestroyType, DestroyFrame

LEMMA HeldOps ==
    ASSUME NEW a \in Att
    PROVE  /\ Held(a) \subseteq Op
           /\ a.pending_req # None =>
                 a.pending_req \in Op /\ a.pending_req \in Held(a)
           /\ a.pending_ind # None =>
                 a.pending_ind \in Op /\ a.pending_ind \in Held(a)
           /\ ToSet(a.req_queue) \subseteq ReqOp
           /\ ToSet(a.ind_queue) \subseteq IndOp
           /\ ToSet(a.write_queue) \subseteq WriteOp
<1>1. /\ a.req_queue \in Seq(ReqOp) /\ a.ind_queue \in Seq(IndOp)
      /\ a.write_queue \in Seq(WriteOp)
      /\ a.pending_req \in ReqOp \cup {None}
      /\ a.pending_ind \in IndOp \cup {None}
  BY DEF Att
<1>2. \A T, q : q \in Seq(T) => ToSet(q) \subseteq T
  BY ElementOfSeq, LenProperties DEF ToSet
<1>3. /\ ToSet(a.req_queue) \subseteq ReqOp
      /\ ToSet(a.ind_queue) \subseteq IndOp
      /\ ToSet(a.write_queue) \subseteq WriteOp
  BY <1>1, <1>2
<1> QED
  BY <1>1, <1>3, OpSets, Zenon DEF Held, Queued, Pending

\* Ops of different types are different ops
LEMMA HeldApart ==
    ASSUME NEW a \in Att, Ordered(a)
    PROVE  /\ \A op \in ToSet(a.req_queue) :
                 /\ op \notin ToSet(a.ind_queue) /\ op \notin ToSet(a.write_queue)
                 /\ op # a.pending_req /\ op # a.pending_ind
           /\ \A op \in ToSet(a.ind_queue) :
                 /\ op \notin ToSet(a.req_queue) /\ op \notin ToSet(a.write_queue)
                 /\ op # a.pending_req /\ op # a.pending_ind
           /\ \A op \in ToSet(a.write_queue) :
                 /\ op \notin ToSet(a.req_queue) /\ op \notin ToSet(a.ind_queue)
                 /\ op # a.pending_req /\ op # a.pending_ind
           /\ a.pending_req # None => a.pending_req # a.pending_ind
<1>1. /\ \A op \in ReqOp : op.type = "REQ" /\ op \in Op
      /\ \A op \in IndOp : op.type = "IND" /\ op \in Op
      /\ \A op \in WriteOp : op.type \notin {"REQ", "IND"} /\ op \in Op
  BY OpSets, SMT DEF WriteOp, OpOf, Elicits
<1>2. /\ ToSet(a.req_queue) \subseteq ReqOp
      /\ ToSet(a.ind_queue) \subseteq IndOp
      /\ ToSet(a.write_queue) \subseteq WriteOp
  BY HeldOps
<1>3. /\ a.pending_req \in ReqOp \cup {None}
      /\ a.pending_ind \in IndOp \cup {None}
  BY DEF Att
<1>4. \A op \in Op : ~(op.id < op.id)
  BY SMT DEF Op, OpOf, Ids
<1>5. /\ \A op \in ToSet(a.req_queue) : op # a.pending_req
      /\ \A op \in ToSet(a.ind_queue) : op # a.pending_ind
  BY <1>1, <1>2, <1>4, OpSets, Zenon DEF Ordered
<1>6. \A op \in ReqOp : op \notin IndOp /\ op \notin WriteOp /\ op # None
  BY <1>1, OpSets, SMT
<1>7. \A op \in IndOp : op \notin ReqOp /\ op \notin WriteOp /\ op # None
  BY <1>1, OpSets, SMT
<1>8. \A op \in WriteOp : op # None
  BY <1>1, OpSets, Zenon
<1> QED
  BY <1>2, <1>3, <1>5, <1>6, <1>7, <1>8, Zenon

\* bt_att_send: the fields it changes
LEMMA SendView ==
    ASSUME NEW a \in Att, NEW type \in OpType, NEW r \in Requests \cup {0},
           a.io = "open", a.next_send_id \in Ids
    PROVE  LET op == SentOp(a, type, r)
               b == Send(a, type, r)
           IN  /\ op \in Op
               /\ b.fate = [a.fate EXCEPT ![op.id] = "open"]
               /\ b.req_queue = IF type = "REQ" THEN Append(a.req_queue, op)
                                                ELSE a.req_queue
               /\ b.ind_queue = IF type = "IND" THEN Append(a.ind_queue, op)
                                                ELSE a.ind_queue
<1> DEFINE op == SentOp(a, type, r)
           b == [a EXCEPT !.next_send_id = @ + 1]
           c == Fated(b, op.id, "open")
           d == Push(c, op)
<1>1. op \in Op /\ op.type = type /\ op.id \in Ids
  BY DEF Op, OpOf, SentOp
<1>2. a.next_send_id + 1 \in 1 .. MaxOps + 1
  BY BoundsAssumption DEF Ids
<1>3. b \in Att
  BY <1>2 DEF Att
<1>4. /\ b.fate = a.fate /\ b.req_queue = a.req_queue
      /\ b.ind_queue = a.ind_queue
  BY DEF Att
<1>5. c \in Att
  BY <1>1, <1>3, FatedType DEF Fate
<1>6. SameQueues(b, c)
  BY <1>3, FatedFrame
<1>7. c.fate = [b.fate EXCEPT ![op.id] = "open"]
  BY <1>3, Zenon DEF Fated, Att
<1>8. d \in Att
  BY <1>1, <1>5, PushType
<1>9. Send(a, type, r) = WakeupWriter(d)
  BY DEF Send, SentOp
<1>10. /\ d.fate = c.fate
       /\ d.req_queue = IF type = "REQ" THEN Append(c.req_queue, op)
                                        ELSE c.req_queue
       /\ d.ind_queue = IF type = "IND" THEN Append(c.ind_queue, op)
                                        ELSE c.ind_queue
  BY <1>1, <1>5, PushFrame
<1>11. SameQueues(d, WakeupWriter(d)) /\ WakeupWriter(d).fate = d.fate
  BY <1>8, WakeupWriterFrame
<1> HIDE DEF b, c, d
<1> QED
  BY <1>1, <1>4, <1>6, <1>7, <1>9, <1>10, <1>11 DEF SameQueues

LEMMA SendSound ==
    ASSUME NEW a \in Att, NEW type \in OpType, NEW r \in Requests \cup {0},
           NEW X, NEW c, Sound(a, X, c)
    PROVE  /\ Sound(Send(a, type, r), X, c)
           /\ Send(a, type, r).pending_req = a.pending_req
           /\ Send(a, type, r).pending_ind = a.pending_ind
<1>1. CASE ~(a.io = "open" /\ a.next_send_id \in Ids)
  BY <1>1, Zenon DEF Send
<1>2. CASE a.io = "open" /\ a.next_send_id \in Ids
  <2> DEFINE op == SentOp(a, type, r)
             b == Send(a, type, r)
  <2>1. /\ op \in Op
        /\ b.fate = [a.fate EXCEPT ![op.id] = "open"]
        /\ b.req_queue = IF type = "REQ" THEN Append(a.req_queue, op)
                                         ELSE a.req_queue
        /\ b.ind_queue = IF type = "IND" THEN Append(a.ind_queue, op)
                                         ELSE a.ind_queue
        /\ b.write_queue = IF type \in Elicits THEN a.write_queue
                           ELSE Append(a.write_queue, op)
        /\ b.pending_req = a.pending_req /\ b.pending_ind = a.pending_ind
        /\ b.next_send_id = a.next_send_id + 1
    BY <1>2, SendView, SendFrame
  <2>2. op.id = a.next_send_id /\ op.type = type /\ op.hooked
    BY DEF SentOp
  <2>3. Ordered(a) /\ Tracked(a, X, c)
    BY Zenon DEF Sound
  <2>4. \A p \in Held(a) : p.id < op.id
    BY <2>2, <2>3, Zenon DEF Tracked
  <2>5. /\ a.req_queue \in Seq(ReqOp) /\ a.ind_queue \in Seq(IndOp)
        /\ a.write_queue \in Seq(WriteOp)
    BY DEF Att
  <2>6. /\ \A p \in ToSet(a.req_queue) : p \in Held(a)
        /\ \A p \in ToSet(a.ind_queue) : p \in Held(a)
        /\ \A p \in ToSet(a.write_queue) : p \in Held(a)
    BY Zenon DEF Held, Queued
  <2>7. /\ a.pending_req # None => a.pending_req \in Held(a)
        /\ a.pending_ind # None => a.pending_ind \in Held(a)
    BY HeldOps
  <2> HIDE DEF b, op
  <2>8. CASE type = "REQ"
    <3>1. /\ b.req_queue = Append(a.req_queue, op)
          /\ b.ind_queue = a.ind_queue /\ b.write_queue = a.write_queue
      BY <2>1, <2>8, SMT DEF Elicits
    <3>2. op \in ReqOp
      BY <2>1, <2>2, <2>8, OpSets
    <3>3. /\ Increasing(b.req_queue)
          /\ ToSet(b.req_queue) = ToSet(a.req_queue) \cup {op}
      BY <2>3, <2>4, <2>5, <2>6, <3>1, <3>2, OpSets, AppendQueue DEF Ordered
    <3>4. Ordered(b)
      BY <2>1, <2>3, <2>4, <2>7, <3>1, <3>3, Zenon DEF Ordered
    <3>5. Held(b) = Held(a) \cup {op}
      BY <2>1, <3>1, <3>3, Zenon DEF Held, Queued, Pending
    <3> QED
      BY <2>1, <2>2, <2>3, <3>4, <3>5, OpAdded, Zenon DEF Sound, b
  <2>9. CASE type = "IND"
    <3>1. /\ b.ind_queue = Append(a.ind_queue, op)
          /\ b.req_queue = a.req_queue /\ b.write_queue = a.write_queue
      BY <2>1, <2>9, SMT DEF Elicits
    <3>2. op \in IndOp
      BY <2>1, <2>2, <2>9, OpSets
    <3>3. /\ Increasing(b.ind_queue)
          /\ ToSet(b.ind_queue) = ToSet(a.ind_queue) \cup {op}
      BY <2>3, <2>4, <2>5, <2>6, <3>1, <3>2, OpSets, AppendQueue DEF Ordered
    <3>4. Ordered(b)
      BY <2>1, <2>3, <2>4, <2>7, <3>1, <3>3, Zenon DEF Ordered
    <3>5. Held(b) = Held(a) \cup {op}
      BY <2>1, <3>1, <3>3, Zenon DEF Held, Queued, Pending
    <3> QED
      BY <2>1, <2>2, <2>3, <3>4, <3>5, OpAdded, Zenon DEF Sound, b
  <2>10. CASE type \notin Elicits
    <3>1. /\ b.write_queue = Append(a.write_queue, op)
          /\ b.req_queue = a.req_queue /\ b.ind_queue = a.ind_queue
      BY <2>1, <2>10, SMT DEF Elicits
    <3>2. op \in WriteOp
      BY <2>1, <2>2, <2>10, OpSets
    <3>3. /\ Increasing(b.write_queue)
          /\ ToSet(b.write_queue) = ToSet(a.write_queue) \cup {op}
      BY <2>3, <2>4, <2>5, <2>6, <3>1, <3>2, OpSets, AppendQueue DEF Ordered
    <3>4. Ordered(b)
      BY <2>1, <2>3, <3>1, <3>3, Zenon DEF Ordered
    <3>5. Held(b) = Held(a) \cup {op}
      BY <2>1, <3>1, <3>3, Zenon DEF Held, Queued, Pending
    <3> QED
      BY <2>1, <2>2, <2>3, <3>4, <3>5, OpAdded, Zenon DEF Sound, b
  <2> QED
    BY <2>8, <2>9, <2>10 DEF Elicits
<1> QED
  BY <1>1, <1>2

\* bt_att_cancel of an op on the air: the op stays without its hooks
LEMMA CancelPendingReqSound ==
    ASSUME NEW a \in Att, a.pending_req # None, NEW X, NEW c, Sound(a, X, c)
    PROVE  /\ Sound(CancelPendingReq(a), X, c)
           /\ CancelPendingReq(a).pending_req = Stripped(a.pending_req)
           /\ CancelPendingReq(a).pending_ind = a.pending_ind
<1> DEFINE op == a.pending_req
           d == Destroy(a, op)
           b == CancelPendingReq(a)
<1>1. op \in ReqOp /\ op \in Op /\ op \in Held(a)
  BY HeldOps, OpSets DEF Att
<1>2. d \in Att /\ SameQueues(a, d) /\ d.fate = DestroyedFate(a, op)
  BY <1>1, DestroyView
<1>3. /\ Stripped(op) \in Op /\ Stripped(op).id = op.id
      /\ Stripped(op).type = op.type
  BY <1>1, StrippedType, SMT DEF Stripped, Op, OpOf
<1>4. /\ b.req_queue = a.req_queue /\ b.ind_queue = a.ind_queue
      /\ b.write_queue = a.write_queue /\ b.pending_ind = a.pending_ind
      /\ b.next_send_id = a.next_send_id
      /\ b.pending_req = Stripped(op) /\ b.fate = d.fate
  BY <1>2 DEF CancelPendingReq, Att, SameQueues
<1>5. Stripped(op) # None
  BY <1>3, OpSets
<1>6. Ordered(a) /\ Tracked(a, X, c)
  BY Zenon DEF Sound
<1>7. /\ op \notin Queued(a) /\ op # a.pending_ind
  BY <1>6, HeldApart, Zenon DEF Queued
<1> HIDE DEF b, op, d
<1>8. Ordered(b)
  BY <1>3, <1>4, <1>6, SMT DEF Ordered, op
<1>9. /\ Held(b) = (Held(a) \ {op}) \cup {Stripped(op)}
      /\ op \notin X
  <2>1. Queued(b) = Queued(a)
    BY <1>4, Zenon DEF Queued
  <2>2. /\ Pending(a) = {op} \cup ({a.pending_ind} \ {None})
        /\ Pending(b) = {Stripped(op)} \cup ({a.pending_ind} \ {None})
    BY <1>1, <1>4, <1>5, OpSets, Zenon DEF Pending, op
  <2>3. op \notin X
    BY <1>1, <1>6, Zenon DEF Tracked
  <2> QED
    BY <1>7, <2>1, <2>2, <2>3, Zenon DEF Held
<1>10. X \cap Held(b) = {}
  <2>1. Stripped(op) \notin X
    BY <1>1, <1>3, <1>6, <1>9, Zenon DEF Tracked
  <2> QED
    BY <1>6, <1>9, <2>1, Zenon DEF Tracked
<1>11. Held(b) \cup X = ((Held(a) \cup X) \ {op}) \cup {Stripped(op)}
  BY <1>9, Zenon
<1>12. Tracked(b, X, c)
  BY <1>1, <1>2, <1>4, <1>6, <1>10, <1>11, OpDestroyed
<1> QED
  BY <1>4, <1>8, <1>12, Zenon DEF Sound, b, op

LEMMA CancelPendingIndSound ==
    ASSUME NEW a \in Att, a.pending_ind # None, NEW X, NEW c, Sound(a, X, c)
    PROVE  /\ Sound(CancelPendingInd(a), X, c)
           /\ CancelPendingInd(a).pending_ind = Stripped(a.pending_ind)
           /\ CancelPendingInd(a).pending_req = a.pending_req
<1> DEFINE op == a.pending_ind
           d == Destroy(a, op)
           b == CancelPendingInd(a)
<1>1. op \in IndOp /\ op \in Op /\ op \in Held(a)
  BY HeldOps, OpSets DEF Att
<1>2. d \in Att /\ SameQueues(a, d) /\ d.fate = DestroyedFate(a, op)
  BY <1>1, DestroyView
<1>3. /\ Stripped(op) \in Op /\ Stripped(op).id = op.id
      /\ Stripped(op).type = op.type
  BY <1>1, StrippedType, SMT DEF Stripped, Op, OpOf
<1>4. /\ b.req_queue = a.req_queue /\ b.ind_queue = a.ind_queue
      /\ b.write_queue = a.write_queue /\ b.pending_req = a.pending_req
      /\ b.next_send_id = a.next_send_id
      /\ b.pending_ind = Stripped(op) /\ b.fate = d.fate
  BY <1>2 DEF CancelPendingInd, Att, SameQueues
<1>5. Stripped(op) # None
  BY <1>3, OpSets
<1>6. Ordered(a) /\ Tracked(a, X, c)
  BY Zenon DEF Sound
<1>7. /\ op \notin Queued(a) /\ op # a.pending_req
  BY <1>6, HeldApart, Zenon DEF Queued
<1> HIDE DEF b, op, d
<1>8. Ordered(b)
  BY <1>3, <1>4, <1>6, SMT DEF Ordered, op
<1>9. /\ Held(b) = (Held(a) \ {op}) \cup {Stripped(op)}
      /\ op \notin X
  <2>1. Queued(b) = Queued(a)
    BY <1>4, Zenon DEF Queued
  <2>2. /\ Pending(a) = {op} \cup ({a.pending_req} \ {None})
        /\ Pending(b) = {Stripped(op)} \cup ({a.pending_req} \ {None})
    BY <1>1, <1>4, <1>5, OpSets, Zenon DEF Pending, op
  <2>3. op \notin X
    BY <1>1, <1>6, Zenon DEF Tracked
  <2> QED
    BY <1>7, <2>1, <2>2, <2>3, Zenon DEF Held
<1>10. X \cap Held(b) = {}
  <2>1. Stripped(op) \notin X
    BY <1>1, <1>3, <1>6, <1>9, Zenon DEF Tracked
  <2> QED
    BY <1>6, <1>9, <2>1, Zenon DEF Tracked
<1>11. Held(b) \cup X = ((Held(a) \cup X) \ {op}) \cup {Stripped(op)}
  BY <1>9, Zenon
<1>12. Tracked(b, X, c)
  BY <1>1, <1>2, <1>4, <1>6, <1>10, <1>11, OpDestroyed
<1> QED
  BY <1>4, <1>8, <1>12, Zenon DEF Sound, b, op

\* The queues other than the one that is named are those of a
OthersKept(a, b, name) ==
    /\ name # "req" => b.req_queue = a.req_queue
    /\ name # "ind" => b.ind_queue = a.ind_queue
    /\ name # "write" => b.write_queue = a.write_queue
    /\ b.pending_req = a.pending_req
    /\ b.pending_ind = a.pending_ind
    /\ b.next_send_id = a.next_send_id

\* An op leaves its queue
LEMMA ReqLeaves ==
    ASSUME NEW a \in Att, Ordered(a), NEW b, OthersKept(a, b, "req"),
           NEW op \in ToSet(a.req_queue), Increasing(b.req_queue),
           ToSet(b.req_queue) = ToSet(a.req_queue) \ {op}
    PROVE  /\ Ordered(b)
           /\ Held(b) = Held(a) \ {op}
           /\ op \in Held(a) /\ op \in Op
<1>1. OthersKept(a, b, "req")
  OBVIOUS
<1>2. /\ b.ind_queue = a.ind_queue /\ b.write_queue = a.write_queue
      /\ b.pending_req = a.pending_req /\ b.pending_ind = a.pending_ind
  BY <1>1, SMT DEF OthersKept
<1>3. Ordered(b)
  BY <1>2, SMT DEF Ordered
<1>4. /\ op \notin ToSet(a.ind_queue) /\ op \notin ToSet(a.write_queue)
      /\ op # a.pending_req /\ op # a.pending_ind
  BY HeldApart
<1>5. Held(b) = Held(a) \ {op}
  BY <1>2, <1>4, Zenon DEF Held, Queued, Pending
<1>6. op \in Held(a) /\ op \in Op
  BY HeldOps, Zenon DEF Held, Queued
<1> QED
  BY <1>3, <1>5, <1>6

LEMMA IndLeaves ==
    ASSUME NEW a \in Att, Ordered(a), NEW b, OthersKept(a, b, "ind"),
           NEW op \in ToSet(a.ind_queue), Increasing(b.ind_queue),
           ToSet(b.ind_queue) = ToSet(a.ind_queue) \ {op}
    PROVE  /\ Ordered(b)
           /\ Held(b) = Held(a) \ {op}
           /\ op \in Held(a) /\ op \in Op
<1>1. OthersKept(a, b, "ind")
  OBVIOUS
<1>2. /\ b.req_queue = a.req_queue /\ b.write_queue = a.write_queue
      /\ b.pending_req = a.pending_req /\ b.pending_ind = a.pending_ind
  BY <1>1, SMT DEF OthersKept
<1>3. Ordered(b)
  BY <1>2, SMT DEF Ordered
<1>4. /\ op \notin ToSet(a.req_queue) /\ op \notin ToSet(a.write_queue)
      /\ op # a.pending_req /\ op # a.pending_ind
  BY HeldApart
<1>5. Held(b) = Held(a) \ {op}
  BY <1>2, <1>4, Zenon DEF Held, Queued, Pending
<1>6. op \in Held(a) /\ op \in Op
  BY HeldOps, Zenon DEF Held, Queued
<1> QED
  BY <1>3, <1>5, <1>6

LEMMA WriteLeaves ==
    ASSUME NEW a \in Att, Ordered(a), NEW b, OthersKept(a, b, "write"),
           NEW op \in ToSet(a.write_queue), Increasing(b.write_queue),
           ToSet(b.write_queue) = ToSet(a.write_queue) \ {op}
    PROVE  /\ Ordered(b)
           /\ Held(b) = Held(a) \ {op}
           /\ op \in Held(a) /\ op \in Op
<1>1. OthersKept(a, b, "write")
  OBVIOUS
<1>2. /\ b.req_queue = a.req_queue /\ b.ind_queue = a.ind_queue
      /\ b.pending_req = a.pending_req /\ b.pending_ind = a.pending_ind
  BY <1>1, SMT DEF OthersKept
<1>3. Ordered(b)
  BY <1>2, SMT DEF Ordered
<1>4. /\ op \notin ToSet(a.req_queue) /\ op \notin ToSet(a.ind_queue)
      /\ op # a.pending_req /\ op # a.pending_ind
  BY HeldApart
<1>5. Held(b) = Held(a) \ {op}
  BY <1>2, <1>4, Zenon DEF Held, Queued, Pending
<1>6. op \in Held(a) /\ op \in Op
  BY HeldOps, Zenon DEF Held, Queued
<1> QED
  BY <1>3, <1>5, <1>6

LEMMA CancelReqSound ==
    ASSUME NEW a \in Att, NEW k \in DOMAIN a.req_queue,
           NEW X, NEW c, Sound(a, X, c)
    PROVE  /\ Sound(CancelReq(a, k), X, c)
           /\ CancelReq(a, k).pending_req = a.pending_req
           /\ CancelReq(a, k).pending_ind = a.pending_ind
<1> DEFINE b == [a EXCEPT !.req_queue = RemoveAt(@, k)]
           op == a.req_queue[k]
           d == Destroy(b, op)
<1>1. Ordered(a) /\ Tracked(a, X, c)
  BY Zenon DEF Sound
<1>2. a.req_queue \in Seq(ReqOp)
  BY DEF Att
<1>3. /\ RemoveAt(a.req_queue, k) \in Seq(ReqOp)
      /\ Increasing(RemoveAt(a.req_queue, k))
      /\ ToSet(RemoveAt(a.req_queue, k)) = ToSet(a.req_queue) \ {op}
      /\ op \in ToSet(a.req_queue)
  BY <1>1, <1>2, OpSets, RemoveQueue DEF Ordered
<1>4. b \in Att
  BY <1>3, Zenon DEF Att
<1>5. /\ b.req_queue = RemoveAt(a.req_queue, k) /\ b.fate = a.fate
      /\ OthersKept(a, b, "req")
  BY DEF Att, OthersKept
<1> HIDE DEF b, op
<1>6. Ordered(b) /\ Held(b) = Held(a) \ {op} /\ op \in Held(a) /\ op \in Op
  <2>1. /\ Increasing(b.req_queue) /\ op \in ToSet(a.req_queue)
        /\ ToSet(b.req_queue) = ToSet(a.req_queue) \ {op}
    BY <1>3, <1>5, Zenon
  <2> QED
    BY <1>1, <1>5, <2>1, ReqLeaves
<1>7. d \in Att /\ SameQueues(b, d) /\ d.fate = DestroyedFate(b, op)
  BY <1>4, <1>6, DestroyView
<1> HIDE DEF d
<1>8. d.fate = DestroyedFate(a, op)
  BY <1>5, <1>7, Zenon DEF DestroyedFate
<1>9. Ordered(d) /\ Held(d) = Held(b)
  BY <1>6, <1>7, Zenon DEF SameQueues, Ordered, Held, Queued, Pending
<1>10. op \notin X /\ X \cap Held(a) = {}
  BY <1>1, <1>6, Zenon DEF Tracked
<1>11. /\ Held(d) \cup X = ((Held(a) \cup X) \ {op}) \cup {}
       /\ X \cap Held(d) = {}
  BY <1>6, <1>9, <1>10, Zenon
<1>12. d.next_send_id = a.next_send_id /\ {} \in SUBSET {Stripped(op)}
  BY <1>5, <1>7, Zenon DEF OthersKept, SameQueues
<1>13. Tracked(d, X, c)
  BY <1>1, <1>6, <1>8, <1>11, <1>12, OpDestroyed
<1>14. CancelReq(a, k) = WakeupWriter(d)
  BY Zenon DEF CancelReq, b, op, d
<1>15. /\ Sound(WakeupWriter(d), X, c)
       /\ SameQueues(d, WakeupWriter(d))
  BY <1>7, <1>9, <1>6, <1>13, WakeupWriterSound, WakeupWriterFrame DEF Sound
<1> QED
  BY <1>5, <1>7, <1>14, <1>15, Zenon DEF OthersKept, SameQueues

LEMMA CancelIndSound ==
    ASSUME NEW a \in Att, NEW k \in DOMAIN a.ind_queue,
           NEW X, NEW c, Sound(a, X, c)
    PROVE  /\ Sound(CancelInd(a, k), X, c)
           /\ CancelInd(a, k).pending_req = a.pending_req
           /\ CancelInd(a, k).pending_ind = a.pending_ind
<1> DEFINE b == [a EXCEPT !.ind_queue = RemoveAt(@, k)]
           op == a.ind_queue[k]
           d == Destroy(b, op)
<1>1. Ordered(a) /\ Tracked(a, X, c)
  BY Zenon DEF Sound
<1>2. a.ind_queue \in Seq(IndOp)
  BY DEF Att
<1>3. /\ RemoveAt(a.ind_queue, k) \in Seq(IndOp)
      /\ Increasing(RemoveAt(a.ind_queue, k))
      /\ ToSet(RemoveAt(a.ind_queue, k)) = ToSet(a.ind_queue) \ {op}
      /\ op \in ToSet(a.ind_queue)
  BY <1>1, <1>2, OpSets, RemoveQueue DEF Ordered
<1>4. b \in Att
  BY <1>3, Zenon DEF Att
<1>5. /\ b.ind_queue = RemoveAt(a.ind_queue, k) /\ b.fate = a.fate
      /\ OthersKept(a, b, "ind")
  BY DEF Att, OthersKept
<1> HIDE DEF b, op
<1>6. Ordered(b) /\ Held(b) = Held(a) \ {op} /\ op \in Held(a) /\ op \in Op
  <2>1. /\ Increasing(b.ind_queue) /\ op \in ToSet(a.ind_queue)
        /\ ToSet(b.ind_queue) = ToSet(a.ind_queue) \ {op}
    BY <1>3, <1>5, Zenon
  <2> QED
    BY <1>1, <1>5, <2>1, IndLeaves
<1>7. d \in Att /\ SameQueues(b, d) /\ d.fate = DestroyedFate(b, op)
  BY <1>4, <1>6, DestroyView
<1> HIDE DEF d
<1>8. d.fate = DestroyedFate(a, op)
  BY <1>5, <1>7, Zenon DEF DestroyedFate
<1>9. Ordered(d) /\ Held(d) = Held(b)
  BY <1>6, <1>7, Zenon DEF SameQueues, Ordered, Held, Queued, Pending
<1>10. op \notin X /\ X \cap Held(a) = {}
  BY <1>1, <1>6, Zenon DEF Tracked
<1>11. /\ Held(d) \cup X = ((Held(a) \cup X) \ {op}) \cup {}
       /\ X \cap Held(d) = {}
  BY <1>6, <1>9, <1>10, Zenon
<1>12. d.next_send_id = a.next_send_id /\ {} \in SUBSET {Stripped(op)}
  BY <1>5, <1>7, Zenon DEF OthersKept, SameQueues
<1>13. Tracked(d, X, c)
  BY <1>1, <1>6, <1>8, <1>11, <1>12, OpDestroyed
<1>14. CancelInd(a, k) = WakeupWriter(d)
  BY Zenon DEF CancelInd, b, op, d
<1>15. /\ Sound(WakeupWriter(d), X, c)
       /\ SameQueues(d, WakeupWriter(d))
  BY <1>7, <1>9, <1>6, <1>13, WakeupWriterSound, WakeupWriterFrame DEF Sound
<1> QED
  BY <1>5, <1>7, <1>14, <1>15, Zenon DEF OthersKept, SameQueues

LEMMA CancelWriteSound ==
    ASSUME NEW a \in Att, NEW k \in DOMAIN a.write_queue,
           NEW X, NEW c, Sound(a, X, c)
    PROVE  /\ Sound(CancelWrite(a, k), X, c)
           /\ CancelWrite(a, k).pending_req = a.pending_req
           /\ CancelWrite(a, k).pending_ind = a.pending_ind
<1> DEFINE b == [a EXCEPT !.write_queue = RemoveAt(@, k)]
           op == a.write_queue[k]
           d == Destroy(b, op)
<1>1. Ordered(a) /\ Tracked(a, X, c)
  BY Zenon DEF Sound
<1>2. a.write_queue \in Seq(WriteOp)
  BY DEF Att
<1>3. /\ RemoveAt(a.write_queue, k) \in Seq(WriteOp)
      /\ Increasing(RemoveAt(a.write_queue, k))
      /\ ToSet(RemoveAt(a.write_queue, k)) = ToSet(a.write_queue) \ {op}
      /\ op \in ToSet(a.write_queue)
  BY <1>1, <1>2, OpSets, RemoveQueue DEF Ordered
<1>4. b \in Att
  BY <1>3, Zenon DEF Att
<1>5. /\ b.write_queue = RemoveAt(a.write_queue, k) /\ b.fate = a.fate
      /\ OthersKept(a, b, "write")
  BY DEF Att, OthersKept
<1> HIDE DEF b, op
<1>6. Ordered(b) /\ Held(b) = Held(a) \ {op} /\ op \in Held(a) /\ op \in Op
  <2>1. /\ Increasing(b.write_queue) /\ op \in ToSet(a.write_queue)
        /\ ToSet(b.write_queue) = ToSet(a.write_queue) \ {op}
    BY <1>3, <1>5, Zenon
  <2> QED
    BY <1>1, <1>5, <2>1, WriteLeaves
<1>7. d \in Att /\ SameQueues(b, d) /\ d.fate = DestroyedFate(b, op)
  BY <1>4, <1>6, DestroyView
<1> HIDE DEF d
<1>8. d.fate = DestroyedFate(a, op)
  BY <1>5, <1>7, Zenon DEF DestroyedFate
<1>9. Ordered(d) /\ Held(d) = Held(b)
  BY <1>6, <1>7, Zenon DEF SameQueues, Ordered, Held, Queued, Pending
<1>10. op \notin X /\ X \cap Held(a) = {}
  BY <1>1, <1>6, Zenon DEF Tracked
<1>11. /\ Held(d) \cup X = ((Held(a) \cup X) \ {op}) \cup {}
       /\ X \cap Held(d) = {}
  BY <1>6, <1>9, <1>10, Zenon
<1>12. d.next_send_id = a.next_send_id /\ {} \in SUBSET {Stripped(op)}
  BY <1>5, <1>7, Zenon DEF OthersKept, SameQueues
<1>13. Tracked(d, X, c)
  BY <1>1, <1>6, <1>8, <1>11, <1>12, OpDestroyed
<1>14. CancelWrite(a, k) = WakeupWriter(d)
  BY Zenon DEF CancelWrite, b, op, d
<1>15. /\ Sound(WakeupWriter(d), X, c)
       /\ SameQueues(d, WakeupWriter(d))
  BY <1>7, <1>9, <1>6, <1>13, WakeupWriterSound, WakeupWriterFrame DEF Sound
<1> QED
  BY <1>5, <1>7, <1>14, <1>15, Zenon DEF OthersKept, SameQueues

-----------------------------------------------------------------------------
(* Callbacks and what the upper layer does in them *)

\* What is pending may have lost its hooks
PendingStays(a, b) ==
    /\ \/ b.pending_req = a.pending_req
       \/ a.pending_req # None /\ b.pending_req = Stripped(a.pending_req)
    /\ \/ b.pending_ind = a.pending_ind
       \/ a.pending_ind # None /\ b.pending_ind = Stripped(a.pending_ind)

LEMMA ReactionsSound ==
    ASSUME NEW a \in Att, NEW b \in Reactions(a), NEW X, NEW c, Sound(a, X, c)
    PROVE  b \in Att /\ Sound(b, X, c) /\ PendingStays(a, b)
<1>1. ASSUME b \in Submitted(a) PROVE Sound(b, X, c) /\ PendingStays(a, b)
  <2>1. PICK t \in UserOps : b = Send(a, t, 0)
    BY <1>1, Zenon DEF Submitted
  <2>2. t \in OpType
    BY UserAssumption
  <2> QED
    BY <2>1, <2>2, SendSound, Zenon DEF PendingStays
<1>2. ASSUME b \in Cancelled(a) PROVE Sound(b, X, c) /\ PendingStays(a, b)
  <2>1. CASE \E x \in {a.pending_req} \ {None} : b = CancelPendingReq(a)
    BY <2>1, CancelPendingReqSound, Zenon DEF PendingStays
  <2>2. CASE \E x \in {a.pending_ind} \ {None} : b = CancelPendingInd(a)
    BY <2>2, CancelPendingIndSound, Zenon DEF PendingStays
  <2>3. CASE \E k \in DOMAIN a.req_queue : b = CancelReq(a, k)
    BY <2>3, CancelReqSound, Zenon DEF PendingStays
  <2>4. CASE \E k \in DOMAIN a.ind_queue : b = CancelInd(a, k)
    BY <2>4, CancelIndSound, Zenon DEF PendingStays
  <2>5. CASE \E k \in DOMAIN a.write_queue : b = CancelWrite(a, k)
    BY <2>5, CancelWriteSound, Zenon DEF PendingStays
  <2> QED
    BY <1>2, <2>1, <2>2, <2>3, <2>4, <2>5, Zenon DEF Cancelled
<1>3. PendingStays(a, a)
  BY Zenon DEF PendingStays
<1> QED
  BY <1>1, <1>2, <1>3, ReactionsType DEF Reactions

LEMMA CallbackSound ==
    ASSUME NEW a \in Att, NEW X, NEW op \in Held(a) \cup X, op \in Op,
           Sound(a, X, 0)
    PROVE  /\ Callback(a, op) \in Att
           /\ Sound(Callback(a, op), X, op.id)
           /\ SameQueues(a, Callback(a, op))
<1>1. /\ Callback(a, op) \in Att /\ SameQueues(a, Callback(a, op))
  BY CallbackType, CallbackFrame
<1>2. CASE op.hooked /\ op.type \in Elicits
  <2> DEFINE b == Callback(a, op)
  <2>1. b = Fated(a, op.id, AfterCallback[a.fate[op.id]])
    BY <1>2, Zenon DEF Callback
  <2>2. b.fate = [a.fate EXCEPT ![op.id] = AfterCallback[a.fate[op.id]]]
    BY <2>1 DEF Fated, Att
  <2> HIDE DEF b
  <2>3. /\ Held(b) = Held(a) /\ b.next_send_id = a.next_send_id
        /\ Ordered(a) => Ordered(b)
    BY <1>1, Zenon DEF SameQueues, Held, Queued, Pending, Ordered, b
  <2>4. Tracked(b, X, op.id)
    BY <1>2, <2>2, <2>3, OpCalled DEF Sound
  <2> QED
    BY <1>1, <2>3, <2>4, Zenon DEF Sound, b
<1>3. CASE ~(op.hooked /\ op.type \in Elicits)
  BY <1>1, <1>3, OpUncalled, Zenon DEF Callback, Sound
<1> QED
  BY <1>2, <1>3

LEMMA AfterCallSound ==
    ASSUME NEW a \in Att, NEW X, NEW op \in Held(a) \cup X, op \in Op,
           Sound(a, X, 0), NEW b \in AfterCall(a, op)
    PROVE  b \in Att /\ Sound(b, X, op.id) /\ PendingStays(a, b)
<1>1. CASE op.hooked
  <2>1. /\ Callback(a, op) \in Att /\ Sound(Callback(a, op), X, op.id)
        /\ SameQueues(a, Callback(a, op))
    BY CallbackSound
  <2>2. b \in Reactions(Callback(a, op))
    BY <1>1, Zenon DEF AfterCall
  <2>3. /\ b \in Att /\ Sound(b, X, op.id)
        /\ PendingStays(Callback(a, op), b)
    BY <2>1, <2>2, ReactionsSound
  <2> QED
    BY <2>1, <2>3, Zenon DEF PendingStays, SameQueues
<1>2. CASE ~op.hooked
  BY <1>2, OpUncalled, Zenon DEF AfterCall, Sound, PendingStays
<1> QED
  BY <1>1, <1>2

-----------------------------------------------------------------------------
(* The end of what is pending *)

EndedReq(a) == [Destroy(a, a.pending_req) EXCEPT !.pending_req = None]
EndedInd(a) == [Destroy(a, a.pending_ind) EXCEPT !.pending_ind = None]

LEMMA EndedReqSound ==
    ASSUME NEW a \in Att, a.pending_req # None, NEW c, Sound(a, {}, c),
           c \in {0, a.pending_req.id}
    PROVE  /\ EndedReq(a) \in Att /\ Sound(EndedReq(a), {}, 0)
           /\ SameLink(a, EndedReq(a)) /\ SameWriter(a, EndedReq(a))
           /\ EndedReq(a).pending_req = None
           /\ EndedReq(a).pending_ind = a.pending_ind
           /\ \A p \in Held(EndedReq(a)) : p.id # a.pending_req.id
<1> DEFINE op == a.pending_req
           d == Destroy(a, op)
           b == EndedReq(a)
<1>1. op \in Op /\ op \in Held(a)
  BY HeldOps
<1>2. /\ d \in Att /\ SameQueues(a, d) /\ d.fate = DestroyedFate(a, op)
      /\ SameLink(a, d) /\ SameWriter(a, d)
  BY <1>1, DestroyView
<1>3. b \in Att /\ SameLink(d, b) /\ SameWriter(d, b)
  BY <1>2 DEF EndedReq, Att, SameLink, SameWriter
<1>4. /\ b.req_queue = a.req_queue /\ b.ind_queue = a.ind_queue
      /\ b.write_queue = a.write_queue /\ b.pending_ind = a.pending_ind
      /\ b.next_send_id = a.next_send_id
      /\ b.pending_req = None /\ b.fate = d.fate
  BY <1>2 DEF EndedReq, Att, SameQueues
<1>5. Ordered(a) /\ Tracked(a, {}, c)
  BY Zenon DEF Sound
<1>6. op \notin Queued(a) /\ op # a.pending_ind
  BY <1>5, HeldApart, Zenon DEF Queued
<1> HIDE DEF b, op, d
<1>7. Ordered(b)
  BY <1>4, <1>5, Zenon DEF Ordered
<1>8. Held(b) = Held(a) \ {op}
  <2>1. Queued(b) = Queued(a)
    BY <1>4, Zenon DEF Queued
  <2>2. /\ Pending(a) = {op} \cup ({a.pending_ind} \ {None})
        /\ Pending(b) = {a.pending_ind} \ {None}
    BY <1>4, Zenon DEF Pending, op
  <2> QED
    BY <1>6, <2>1, <2>2, Zenon DEF Held
<1>9. Tracked(b, {}, c)
  <2>1. /\ Held(b) \cup {} = ((Held(a) \cup {}) \ {op}) \cup {}
        /\ {} \cap Held(b) = {} /\ {} \in SUBSET {Stripped(op)}
        /\ op \in Held(a) \cup {}
    BY <1>1, <1>8, Zenon
  <2> QED
    BY <1>2, <1>4, <1>5, <2>1, OpDestroyed
<1>10. \A p \in Held(b) : p.id # op.id
  BY <1>1, <1>5, <1>8, Zenon DEF Tracked
<1>11. Tracked(b, {}, 0)
  BY <1>9, <1>10, OpSettled, Zenon DEF op
<1> QED
  BY <1>2, <1>3, <1>4, <1>7, <1>10, <1>11, Zenon
  DEF Sound, b, op, SameLink, SameWriter

LEMMA EndedIndSound ==
    ASSUME NEW a \in Att, a.pending_ind # None, NEW c, Sound(a, {}, c),
           c \in {0, a.pending_ind.id}
    PROVE  /\ EndedInd(a) \in Att /\ Sound(EndedInd(a), {}, 0)
           /\ SameLink(a, EndedInd(a)) /\ SameWriter(a, EndedInd(a))
           /\ EndedInd(a).pending_ind = None
           /\ EndedInd(a).pending_req = a.pending_req
           /\ \A p \in Held(EndedInd(a)) : p.id # a.pending_ind.id
<1> DEFINE op == a.pending_ind
           d == Destroy(a, op)
           b == EndedInd(a)
<1>1. op \in Op /\ op \in Held(a)
  BY HeldOps
<1>2. /\ d \in Att /\ SameQueues(a, d) /\ d.fate = DestroyedFate(a, op)
      /\ SameLink(a, d) /\ SameWriter(a, d)
  BY <1>1, DestroyView
<1>3. b \in Att /\ SameLink(d, b) /\ SameWriter(d, b)
  BY <1>2 DEF EndedInd, Att, SameLink, SameWriter
<1>4. /\ b.req_queue = a.req_queue /\ b.ind_queue = a.ind_queue
      /\ b.write_queue = a.write_queue /\ b.pending_req = a.pending_req
      /\ b.next_send_id = a.next_send_id
      /\ b.pending_ind = None /\ b.fate = d.fate
  BY <1>2 DEF EndedInd, Att, SameQueues
<1>5. Ordered(a) /\ Tracked(a, {}, c)
  BY Zenon DEF Sound
<1>6. op \notin Queued(a) /\ op # a.pending_req
  BY <1>5, HeldApart, Zenon DEF Queued
<1> HIDE DEF b, op, d
<1>7. Ordered(b)
  BY <1>4, <1>5, Zenon DEF Ordered
<1>8. Held(b) = Held(a) \ {op}
  <2>1. Queued(b) = Queued(a)
    BY <1>4, Zenon DEF Queued
  <2>2. /\ Pending(a) = {op} \cup ({a.pending_req} \ {None})
        /\ Pending(b) = {a.pending_req} \ {None}
    BY <1>4, Zenon DEF Pending, op
  <2> QED
    BY <1>6, <2>1, <2>2, Zenon DEF Held
<1>9. Tracked(b, {}, c)
  <2>1. /\ Held(b) \cup {} = ((Held(a) \cup {}) \ {op}) \cup {}
        /\ {} \cap Held(b) = {} /\ {} \in SUBSET {Stripped(op)}
        /\ op \in Held(a) \cup {}
    BY <1>1, <1>8, Zenon
  <2> QED
    BY <1>2, <1>4, <1>5, <2>1, OpDestroyed
<1>10. \A p \in Held(b) : p.id # op.id
  BY <1>1, <1>5, <1>8, Zenon DEF Tracked
<1>11. Tracked(b, {}, 0)
  BY <1>9, <1>10, OpSettled, Zenon DEF op
<1> QED
  BY <1>2, <1>3, <1>4, <1>7, <1>10, <1>11, Zenon
  DEF Sound, b, op, SameLink, SameWriter

-----------------------------------------------------------------------------
(* The op that is sent *)

\* pick_next_send_op: the queue the op comes from, and what it leaves
LEMMA PoppedView ==
    ASSUME NEW a \in Att, Sendable(a), Ordered(a)
    PROVE  LET b == Popped(a)
               op == NextOp(a)
           IN  /\ b \in Att /\ op \in Op /\ op \in Held(a)
               /\ SameLink(a, b) /\ SameWriter(a, b) /\ b.fate = a.fate
               /\ b.next_send_id = a.next_send_id
               /\ b.pending_req = a.pending_req
               /\ b.pending_ind = a.pending_ind
               /\ Ordered(b)
               /\ Held(b) = Held(a) \ {op}
               /\ op.type = "REQ" =>
                     /\ a.pending_req = None
                     /\ \A p \in ToSet(b.req_queue) : op.id < p.id
               /\ op.type = "IND" =>
                     /\ a.pending_ind = None
                     /\ \A p \in ToSet(b.ind_queue) : op.id < p.id
<1> DEFINE b == Popped(a)
           op == NextOp(a)
<1>1. b \in Att /\ op \in Op
  BY PickedType
<1>2. /\ a.req_queue \in Seq(ReqOp) /\ a.ind_queue \in Seq(IndOp)
      /\ a.write_queue \in Seq(WriteOp)
  BY DEF Att
<1>3. /\ Increasing(a.req_queue) /\ Increasing(a.ind_queue)
      /\ Increasing(a.write_queue)
  BY Zenon DEF Ordered
<1>4. CASE Picked(a) = "write"
  <2>1. a.write_queue # << >>
    BY <1>4, SMT DEF Picked
  <2>2. b = [a EXCEPT !.write_queue = Tail(@)] /\ op = Head(a.write_queue)
    BY <1>4, SMT DEF Popped, NextOp
  <2>3. /\ b.write_queue = Tail(a.write_queue) /\ OthersKept(a, b, "write")
        /\ SameLink(a, b) /\ SameWriter(a, b) /\ b.fate = a.fate
    BY <2>2 DEF Att, OthersKept, SameLink, SameWriter
  <2> HIDE DEF b, op
  <2>4. /\ Increasing(b.write_queue) /\ op \in ToSet(a.write_queue)
        /\ ToSet(b.write_queue) = ToSet(a.write_queue) \ {op}
    BY <1>2, <1>3, <2>1, <2>2, <2>3, TailQueue, OpSets
  <2>5. Ordered(b) /\ Held(b) = Held(a) \ {op} /\ op \in Held(a)
    BY <2>3, <2>4, WriteLeaves
  <2>6. op.type \notin {"REQ", "IND"}
    BY <2>4, HeldOps, SMT DEF WriteOp, OpOf, Elicits
  <2> QED
    BY <1>1, <2>3, <2>5, <2>6, Zenon DEF OthersKept, b, op
<1>5. CASE Picked(a) = "req"
  <2>1. a.req_queue # << >> /\ a.pending_req = None
    BY <1>5, SMT DEF Picked
  <2>2. b = [a EXCEPT !.req_queue = Tail(@)] /\ op = Head(a.req_queue)
    BY <1>5, SMT DEF Popped, NextOp
  <2>3. /\ b.req_queue = Tail(a.req_queue) /\ OthersKept(a, b, "req")
        /\ SameLink(a, b) /\ SameWriter(a, b) /\ b.fate = a.fate
    BY <2>2 DEF Att, OthersKept, SameLink, SameWriter
  <2> HIDE DEF b, op
  <2>4. /\ Increasing(b.req_queue) /\ op \in ToSet(a.req_queue)
        /\ ToSet(b.req_queue) = ToSet(a.req_queue) \ {op}
        /\ \A p \in ToSet(b.req_queue) : op.id < p.id
    BY <1>2, <1>3, <2>1, <2>2, <2>3, TailQueue, OpSets
  <2>5. Ordered(b) /\ Held(b) = Held(a) \ {op} /\ op \in Held(a)
    BY <2>3, <2>4, ReqLeaves
  <2>6. op.type = "REQ"
    BY <2>4, HeldOps, OpSets
  <2> QED
    BY <1>1, <2>1, <2>3, <2>4, <2>5, <2>6, SMT DEF OthersKept, b, op
<1>6. CASE Picked(a) \notin {"write", "req"}
  <2>1. a.ind_queue # << >> /\ a.pending_ind = None /\ Picked(a) = "ind"
    BY <1>6, SMT DEF Picked, Sendable
  <2>2. b = [a EXCEPT !.ind_queue = Tail(@)] /\ op = Head(a.ind_queue)
    BY <2>1, SMT DEF Popped, NextOp
  <2>3. /\ b.ind_queue = Tail(a.ind_queue) /\ OthersKept(a, b, "ind")
        /\ SameLink(a, b) /\ SameWriter(a, b) /\ b.fate = a.fate
    BY <2>2 DEF Att, OthersKept, SameLink, SameWriter
  <2> HIDE DEF b, op
  <2>4. /\ Increasing(b.ind_queue) /\ op \in ToSet(a.ind_queue)
        /\ ToSet(b.ind_queue) = ToSet(a.ind_queue) \ {op}
        /\ \A p \in ToSet(b.ind_queue) : op.id < p.id
    BY <1>2, <1>3, <2>1, <2>2, <2>3, TailQueue, OpSets
  <2>5. Ordered(b) /\ Held(b) = Held(a) \ {op} /\ op \in Held(a)
    BY <2>3, <2>4, IndLeaves
  <2>6. op.type = "IND"
    BY <2>4, HeldOps, OpSets
  <2> QED
    BY <1>1, <2>1, <2>3, <2>4, <2>5, <2>6, SMT DEF OthersKept, b, op
<1> QED
  BY <1>4, <1>5, <1>6

LEMMA PoppedSound ==
    ASSUME NEW a \in Att, Sendable(a), Sound(a, {}, 0)
    PROVE  Sound(Popped(a), {NextOp(a)}, 0)
<1> DEFINE b == Popped(a)
           op == NextOp(a)
<1>1. Ordered(a) /\ Tracked(a, {}, 0)
  BY Zenon DEF Sound
<1>2. /\ op \in Held(a) /\ b.fate = a.fate /\ b.next_send_id = a.next_send_id
      /\ Ordered(b) /\ Held(b) = Held(a) \ {op}
  BY <1>1, PoppedView
<1> HIDE DEF b, op
<1>3. Held(b) \cup {op} = Held(a) \cup {} /\ {op} \cap Held(b) = {}
  BY <1>2, Zenon
<1>4. Tracked(b, {op}, 0)
  BY <1>1, <1>2, <1>3, OpsKept
<1> QED
  BY <1>2, <1>4, Zenon DEF Sound, b, op

\* The op a handler has in its hands is destroyed
LEMMA InHandsDestroyed ==
    ASSUME NEW a \in Att, NEW op \in Op, NEW c \in {0, op.id}, Sound(a, {op}, c)
    PROVE  Destroy(a, op) \in Att /\ Sound(Destroy(a, op), {}, 0)
<1> DEFINE b == Destroy(a, op)
<1>1. /\ b \in Att /\ SameQueues(a, b) /\ b.fate = DestroyedFate(a, op)
  BY DestroyView
<1> HIDE DEF b
<1>2. Ordered(a) /\ Tracked(a, {op}, c)
  BY Zenon DEF Sound
<1>3. /\ Ordered(b) /\ Held(b) = Held(a) /\ b.next_send_id = a.next_send_id
  BY <1>1, <1>2, Zenon DEF SameQueues, Ordered, Held, Queued, Pending
<1>4. op \notin Held(a)
  BY <1>2, Zenon DEF Tracked
<1>5. Tracked(b, {}, c)
  <2>1. /\ Held(b) \cup {} = ((Held(a) \cup {op}) \ {op}) \cup {}
        /\ {} \cap Held(b) = {} /\ {} \in SUBSET {Stripped(op)}
        /\ op \in Held(a) \cup {op}
    BY <1>3, <1>4, Zenon
  <2> QED
    BY <1>1, <1>2, <1>3, <2>1, OpDestroyed
<1>6. \A p \in Held(b) : p.id # op.id
  BY <1>2, <1>3, <1>4, Zenon DEF Tracked
<1>7. Tracked(b, {}, 0)
  BY <1>5, <1>6, OpSettled, Zenon
<1> QED
  BY <1>1, <1>3, <1>7, Zenon DEF Sound, b

LEMMA TransmittedSound ==
    ASSUME NEW a \in Att, Sendable(a), Sound(a, {}, 0)
    PROVE  Sound(Transmitted(Popped(a), NextOp(a)), {}, 0)
<1> DEFINE p == Popped(a)
           op == NextOp(a)
           b == Transmitted(p, op)
<1>1. /\ p \in Att /\ op \in Op /\ Sound(p, {op}, 0)
      /\ op.type = "REQ" =>
            p.pending_req = None /\ \A x \in ToSet(p.req_queue) : op.id < x.id
      /\ op.type = "IND" =>
            p.pending_ind = None /\ \A x \in ToSet(p.ind_queue) : op.id < x.id
  BY PoppedView, PoppedSound DEF Sound
<1> HIDE DEF p, op
<1>2. Ordered(p) /\ Tracked(p, {op}, 0) /\ op # None
  BY <1>1, OpSets, Zenon DEF Sound
<1>3. op \notin Held(p)
  BY <1>2, Zenon DEF Tracked
<1>4. CASE op.type = "REQ"
  <2>1. b = [p EXCEPT !.pending_req = op]
    BY <1>4, Zenon DEF Transmitted
  <2>2. /\ b.req_queue = p.req_queue /\ b.ind_queue = p.ind_queue
        /\ b.write_queue = p.write_queue /\ b.pending_ind = p.pending_ind
        /\ b.next_send_id = p.next_send_id
        /\ b.pending_req = op /\ b.fate = p.fate
    BY <1>1, <2>1 DEF Att
  <2> HIDE DEF b
  <2>3. Ordered(b)
    BY <1>1, <1>2, <1>4, <2>2, Zenon DEF Ordered
  <2>4. Held(b) = Held(p) \cup {op}
    BY <1>1, <1>2, <1>4, <2>2, Zenon DEF Held, Queued, Pending
  <2>5. Tracked(b, {}, 0)
    <3>1. Held(b) \cup {} = Held(p) \cup {op} /\ {} \cap Held(b) = {}
      BY <2>4, Zenon
    <3> QED
      BY <1>2, <2>2, <3>1, OpsKept
  <2> QED
    BY <2>3, <2>5, Zenon DEF Sound, b, p, op
<1>5. CASE op.type = "IND"
  <2>1. b = [p EXCEPT !.pending_ind = op]
    BY <1>5, SMT DEF Transmitted
  <2>2. /\ b.req_queue = p.req_queue /\ b.ind_queue = p.ind_queue
        /\ b.write_queue = p.write_queue /\ b.pending_req = p.pending_req
        /\ b.next_send_id = p.next_send_id
        /\ b.pending_ind = op /\ b.fate = p.fate
    BY <1>1, <2>1 DEF Att
  <2> HIDE DEF b
  <2>3. Ordered(b)
    BY <1>1, <1>2, <1>5, <2>2, Zenon DEF Ordered
  <2>4. Held(b) = Held(p) \cup {op}
    BY <1>1, <1>2, <1>5, <2>2, Zenon DEF Held, Queued, Pending
  <2>5. Tracked(b, {}, 0)
    <3>1. Held(b) \cup {} = Held(p) \cup {op} /\ {} \cap Held(b) = {}
      BY <2>4, Zenon
    <3> QED
      BY <1>2, <2>2, <3>1, OpsKept
  <2> QED
    BY <2>3, <2>5, Zenon DEF Sound, b, p, op
<1>6. CASE op.type = "RSP"
  <2> DEFINE q == [p EXCEPT !.in_req = FALSE, !.owed = @ \ {op.answers}]
  <2>1. q \in Att /\ SameQueues(p, q) /\ q.fate = p.fate
    BY <1>1 DEF Att, SameQueues
  <2>2. b = Destroy(q, op)
    BY <1>6, SMT DEF Transmitted
  <2> HIDE DEF q
  <2>3. Sound(q, {op}, 0)
    BY <1>1, <2>1, SameSound
  <2> QED
    BY <1>1, <2>1, <2>2, <2>3, InHandsDestroyed, Zenon DEF p, op
<1>7. CASE op.type \notin {"REQ", "IND", "RSP"}
  <2>1. b = Destroy(p, op)
    BY <1>7, SMT DEF Transmitted
  <2> QED
    BY <1>1, <2>1, InHandsDestroyed, Zenon DEF p, op
<1> QED
  BY <1>4, <1>5, <1>6, <1>7

\* handle_error_rsp: the request is again the first of its queue
LEMMA RequeuedSound ==
    ASSUME NEW a \in Att, a.pending_req # None, NEW level \in LOW .. HIGH,
           Sound(a, {}, 0)
    PROVE  Requeued(a, level) \in Att /\ Sound(Requeued(a, level), {}, 0)
<1> DEFINE op == a.pending_req
           b == Requeued(a, level)
<1>1. op \in ReqOp /\ op \in Op /\ op \in Held(a) /\ a.req_queue \in Seq(ReqOp)
  BY HeldOps, OpSets DEF Att
<1>2. Cons(op, a.req_queue) \in Seq(ReqOp)
  BY <1>1, ConcatProperties DEF Cons
<1>3. b \in Att
  BY <1>2, Zenon DEF Requeued, Att
<1>4. /\ b.req_queue = Cons(op, a.req_queue) /\ b.ind_queue = a.ind_queue
      /\ b.write_queue = a.write_queue /\ b.pending_ind = a.pending_ind
      /\ b.next_send_id = a.next_send_id
      /\ b.pending_req = None /\ b.fate = a.fate
  BY DEF Requeued, Att
<1> HIDE DEF b, op
<1>5. Ordered(a) /\ Tracked(a, {}, 0)
  BY Zenon DEF Sound
<1>6. /\ Increasing(b.req_queue)
      /\ ToSet(b.req_queue) = ToSet(a.req_queue) \cup {op}
  <2>1. Increasing(a.req_queue) /\ \A p \in ToSet(a.req_queue) : op.id < p.id
    BY <1>5, Zenon DEF Ordered, op
  <2> QED
    BY <1>1, <1>4, <2>1, OpSets, ConsQueue
<1>7. Ordered(b)
  BY <1>4, <1>5, <1>6, Zenon DEF Ordered
<1>8. Held(b) = Held(a)
  BY <1>4, <1>6, <1>1, OpSets, Zenon DEF Held, Queued, Pending, op
<1>9. Tracked(b, {}, 0)
  BY <1>4, <1>5, <1>8, OpsKept
<1> QED
  BY <1>3, <1>7, <1>9, Zenon DEF Sound, b

-----------------------------------------------------------------------------
(* The end of many ops *)

\* Whatever goes has its hooks run
LEMMA OpsGone ==
    ASSUME NEW a, NEW b, Tracked(a, {}, 0), Held(b) \subseteq Held(a),
           \A op \in Held(a) \ Held(b) :
              op.hooked => b.fate[op.id] \in {"dropped", "answered"},
           \A i \in Ids :
              \/ \E op \in Held(a) \ Held(b) : op.id = i /\ op.hooked
              \/ b.fate[i] = a.fate[i],
           b.next_send_id = a.next_send_id
    PROVE  Tracked(b, {}, 0)
<1> DEFINE H == Held(a)
           G == Held(b)
           f == a.fate
           g == b.fate
           n == a.next_send_id
<1>1. /\ \A p, q \in H : p.id = q.id => p = q
      /\ \A p \in H : p \in Op /\ p.id < n
      /\ \A i \in Ids :
            /\ f[i] = "unused" <=> i >= n
            /\ f[i] # "twice"
            /\ f[i] = "called" => i = 0
            /\ f[i] \in {"open", "called"} <=> \E p \in H : p.id = i /\ p.hooked
  <2>1. H \cup {} = H
    OBVIOUS
  <2> QED
    BY <2>1, Zenon DEF Tracked
<1>2. /\ G \subseteq H /\ b.next_send_id = n
      /\ \A op \in H \ G : op.hooked => g[op.id] \in {"dropped", "answered"}
      /\ \A i \in Ids : \/ \E op \in H \ G : op.id = i /\ op.hooked
                        \/ g[i] = f[i]
  OBVIOUS
<1> HIDE DEF H, G, f, g, n
<1>3. ASSUME NEW i \in Ids
      PROVE  /\ g[i] = "unused" <=> i >= n
             /\ g[i] # "twice"
             /\ g[i] = "called" => i = 0
             /\ g[i] \in {"open", "called"} <=> \E p \in G : p.id = i /\ p.hooked
  <2>1. CASE \E op \in H \ G : op.id = i /\ op.hooked
    <3>1. PICK op \in H \ G : op.id = i /\ op.hooked
      BY <2>1
    <3>2. g[i] \in {"dropped", "answered"}
      BY <1>2, <3>1, Zenon
    <3>3. f[i] \in {"open", "called"}
      BY <1>1, <3>1, Zenon
    <3>4. \A p \in G : p.id # i
      BY <1>1, <1>2, <3>1, Zenon
    <3> QED
      BY <1>1, <3>2, <3>3, <3>4, SMT
  <2>2. CASE ~\E op \in H \ G : op.id = i /\ op.hooked
    <3>1. g[i] = f[i]
      BY <1>2, <2>2, Zenon
    <3>2. (\E p \in G : p.id = i /\ p.hooked) <=> \E p \in H : p.id = i /\ p.hooked
      BY <1>2, <2>2, Zenon
    <3> QED
      BY <1>1, <3>1, <3>2, Zenon
  <2> QED
    BY <2>1, <2>2
<1>4. /\ \A p, q \in G : p.id = q.id => p = q
      /\ \A p \in G : p \in Op /\ p.id < n
  BY <1>1, <1>2, Zenon
<1>5. G \cup {} = G /\ {} \cap G = {}
  OBVIOUS
<1> QED
  BY <1>2, <1>3, <1>4, <1>5, Zenon DEF Tracked, G, g

\* bt_att_cancel_all, its queues
LEMMA DestroyQueuedSound ==
    ASSUME NEW a \in Att, Sound(a, {}, 0)
    PROVE  LET b == DestroyQueued(a)
           IN  /\ b \in Att /\ Sound(b, {}, 0) /\ SameWriter(a, b)
               /\ b.io = a.io
               /\ b.req_queue = << >> /\ b.ind_queue = << >>
               /\ b.write_queue = << >>
               /\ b.pending_req = a.pending_req
               /\ b.pending_ind = a.pending_ind
<1> DEFINE b == DestroyQueued(a)
           hit(i) == \E op \in Queued(a) : op.id = i /\ op.hooked
<1>1. b \in Att
  BY DestroyQueuedType
<1>2. /\ b.req_queue = << >> /\ b.ind_queue = << >> /\ b.write_queue = << >>
      /\ b.pending_req = a.pending_req /\ b.pending_ind = a.pending_ind
      /\ b.next_send_id = a.next_send_id /\ SameWriter(a, b) /\ b.io = a.io
      /\ b.fate = [i \in Ids |-> IF hit(i) THEN AfterDestroy[a.fate[i]]
                                           ELSE a.fate[i]]
  BY DEF DestroyQueued, Emptied, Att, SameWriter
<1> HIDE DEF b
<1>3. Ordered(a) /\ Tracked(a, {}, 0)
  BY Zenon DEF Sound
<1>4. Ordered(b)
  BY <1>2, EmptyQueue, Zenon DEF Ordered
<1>5. Queued(b) = {} /\ Pending(b) = Pending(a)
  BY <1>2, EmptyQueue, Zenon DEF Queued, Pending
<1>6. Queued(a) \cap Pending(a) = {}
  BY <1>3, HeldApart, Zenon DEF Queued, Pending
<1>7. Held(b) \subseteq Held(a) /\ Held(a) \ Held(b) = Queued(a)
  BY <1>5, <1>6, Zenon DEF Held
<1>8. ASSUME NEW op \in Queued(a), op.hooked
      PROVE  b.fate[op.id] \in {"dropped", "answered"}
  <2>1. op \in Held(a) /\ op \in Op /\ op.id \in Ids
    BY <1>7, HeldOps DEF Op, OpOf
  <2>2. a.fate[op.id] \in {"open", "called"}
    BY <1>3, <1>8, <2>1, Zenon DEF Tracked
  <2>3. AfterDestroy[a.fate[op.id]] \in {"dropped", "answered"}
    BY <2>2, SMT DEF AfterDestroy, Fate
  <2>4. hit(op.id)
    BY <1>8
  <2> HIDE DEF hit
  <2> QED
    BY <1>2, <2>1, <2>3, <2>4, Zenon
<1>9. ASSUME NEW i \in Ids, ~hit(i)
      PROVE  b.fate[i] = a.fate[i]
  <2> HIDE DEF hit
  <2> QED
    BY <1>2, <1>9, Zenon
<1>10. Tracked(b, {}, 0)
  BY <1>2, <1>3, <1>7, <1>8, <1>9, OpsGone, Zenon
<1> QED
  BY <1>1, <1>2, <1>4, <1>10, Zenon DEF Sound, b

\* bt_att_cancel_all: nothing is queued, and what is on the air has no hooks
LEMMA CancelAllSound ==
    ASSUME NEW a \in Att, Sound(a, {}, 0)
    PROVE  LET b == CancelAll(a)
           IN  /\ b \in Att /\ Sound(b, {}, 0) /\ SameWriter(a, b)
               /\ PendingStays(a, b)
               /\ b.req_queue = << >> /\ b.ind_queue = << >>
               /\ b.write_queue = << >>
               /\ \A op \in Held(b) : ~op.hooked
<1> DEFINE q == DestroyQueued(a)
           r == IF q.pending_req = None THEN q ELSE CancelPendingReq(q)
           s == IF r.pending_ind = None THEN r ELSE CancelPendingInd(r)
<1>1. /\ q \in Att /\ Sound(q, {}, 0) /\ SameWriter(a, q)
      /\ q.req_queue = << >> /\ q.ind_queue = << >> /\ q.write_queue = << >>
      /\ q.pending_req = a.pending_req /\ q.pending_ind = a.pending_ind
  BY DestroyQueuedSound
<1> HIDE DEF q
<1>2. ASSUME NEW b \in Att, b.pending_req # None
      PROVE  /\ SameWriter(b, CancelPendingReq(b))
             /\ CancelPendingReq(b).req_queue = b.req_queue
             /\ CancelPendingReq(b).ind_queue = b.ind_queue
             /\ CancelPendingReq(b).write_queue = b.write_queue
  <2>1. /\ Destroy(b, b.pending_req) \in Att
        /\ SameWriter(b, Destroy(b, b.pending_req))
        /\ SameQueues(b, Destroy(b, b.pending_req))
    BY <1>2, HeldOps, DestroyView
  <2> QED
    BY <2>1 DEF CancelPendingReq, SameWriter, SameQueues, Att
<1>3. ASSUME NEW b \in Att, b.pending_ind # None
      PROVE  /\ SameWriter(b, CancelPendingInd(b))
             /\ CancelPendingInd(b).req_queue = b.req_queue
             /\ CancelPendingInd(b).ind_queue = b.ind_queue
             /\ CancelPendingInd(b).write_queue = b.write_queue
  <2>1. /\ Destroy(b, b.pending_ind) \in Att
        /\ SameWriter(b, Destroy(b, b.pending_ind))
        /\ SameQueues(b, Destroy(b, b.pending_ind))
    BY <1>3, HeldOps, DestroyView
  <2> QED
    BY <2>1 DEF CancelPendingInd, SameWriter, SameQueues, Att
<1>4. /\ r \in Att /\ Sound(r, {}, 0) /\ SameWriter(q, r)
      /\ r.req_queue = << >> /\ r.ind_queue = << >> /\ r.write_queue = << >>
      /\ r.pending_ind = q.pending_ind
      /\ q.pending_req = None => r.pending_req = None
      /\ q.pending_req # None => r.pending_req = Stripped(q.pending_req)
  <2>1. CASE q.pending_req = None
    BY <1>1, <2>1 DEF SameWriter
  <2>2. CASE q.pending_req # None
    BY <1>1, <1>2, <2>2, CancelPendingReqType, CancelPendingReqSound
  <2> QED
    BY <2>1, <2>2
<1> HIDE DEF r
<1>5. /\ s \in Att /\ Sound(s, {}, 0) /\ SameWriter(r, s)
      /\ s.req_queue = << >> /\ s.ind_queue = << >> /\ s.write_queue = << >>
      /\ s.pending_req = r.pending_req
      /\ r.pending_ind = None => s.pending_ind = None
      /\ r.pending_ind # None => s.pending_ind = Stripped(r.pending_ind)
  <2>1. CASE r.pending_ind = None
    BY <1>4, <2>1 DEF SameWriter
  <2>2. CASE r.pending_ind # None
    BY <1>3, <1>4, <2>2, CancelPendingIndType, CancelPendingIndSound
  <2> QED
    BY <2>1, <2>2
<1>6. CancelAll(a) = s
  BY DEF CancelAll, q, r
<1> HIDE DEF s
<1>7. /\ q.pending_req # None => ~Stripped(q.pending_req).hooked
      /\ q.pending_ind # None => ~Stripped(q.pending_ind).hooked
  <2>1. \A op \in Op : ~Stripped(op).hooked
    BY DEF Stripped, Op, OpOf
  <2> QED
    BY <1>1, <2>1, HeldOps
<1>8. \A op \in Held(s) : ~op.hooked
  <2>1. Held(s) = Pending(s)
    BY <1>5, EmptyQueue, Zenon DEF Held, Queued
  <2>2. s.pending_req # None => s.pending_req = Stripped(q.pending_req)
                                /\ q.pending_req # None
    BY <1>4, <1>5, Zenon
  <2>3. s.pending_ind # None => s.pending_ind = Stripped(q.pending_ind)
                                /\ q.pending_ind # None
    BY <1>4, <1>5, Zenon
  <2> QED
    BY <1>7, <2>1, <2>2, <2>3, Zenon DEF Pending
<1>9. PendingStays(a, s)
  BY <1>1, <1>4, <1>5, Zenon DEF PendingStays
<1>10. SameWriter(a, s)
  BY <1>1, <1>4, <1>5, Zenon DEF SameWriter
<1> QED
  BY <1>5, <1>6, <1>8, <1>9, <1>10

\* disc_att_send_op on every op
LEMMA DisconnectAllSound ==
    ASSUME NEW a \in Att, NEW C, Sound(a, {}, 0)
    PROVE  LET b == DisconnectAll(a, C)
           IN  /\ b \in Att /\ Sound(b, {}, 0) /\ Held(b) = {}
               /\ SameWriter(a, b) /\ b.io = a.io /\ b.reader = a.reader
               /\ b.pending_req = None /\ b.pending_ind = None
<1> DEFINE b == DisconnectAll(a, C)
           hooked(i, types) == \E op \in Queued(a) \cup Pending(a) :
                                   op.id = i /\ op.hooked /\ op.type \in types
           called == [i \in Ids |-> IF i \notin C /\ hooked(i, Elicits)
                                    THEN AfterCallback[a.fate[i]] ELSE a.fate[i]]
           f == [i \in Ids |-> IF hooked(i, OpType)
                               THEN AfterDestroy[called[i]] ELSE called[i]]
<1>1. b \in Att
  BY DisconnectAllType
<1>2. b = [Emptied(a) EXCEPT !.pending_req = None, !.pending_ind = None,
                             !.fate = f]
  BY Zenon DEF DisconnectAll
<1> HIDE DEF f
<1>3. /\ b.req_queue = << >> /\ b.ind_queue = << >> /\ b.write_queue = << >>
      /\ b.pending_req = None /\ b.pending_ind = None
      /\ b.next_send_id = a.next_send_id /\ SameWriter(a, b)
      /\ b.io = a.io /\ b.reader = a.reader /\ b.fate = f
  BY <1>2 DEF Emptied, Att, SameWriter
<1> HIDE DEF b
<1>4. Ordered(a) /\ Tracked(a, {}, 0)
  BY Zenon DEF Sound
<1>5. Ordered(b)
  BY <1>3, EmptyQueue, Zenon DEF Ordered
<1>6. Held(b) = {}
  BY <1>3, EmptyQueue, Zenon DEF Held, Queued, Pending
<1>7. ASSUME NEW op \in Held(a), op.hooked
      PROVE  b.fate[op.id] \in {"dropped", "answered"}
  <2>1. op \in Op /\ op.id \in Ids /\ op.type \in OpType
    BY HeldOps DEF Op, OpOf
  <2>2. a.fate[op.id] = "open"
    <3>1. /\ a.fate[op.id] \in {"open", "called"}
          /\ a.fate[op.id] = "called" => op.id = 0
      BY <1>4, <1>7, <2>1, Zenon DEF Tracked
    <3> QED
      BY <2>1, <3>1, SMT DEF Ids
  <2>3. called[op.id] \in {"open", "called"}
    <3>1. AfterCallback["open"] = "called"
      BY DEF AfterCallback, Fate
    <3>2. called[op.id] = IF op.id \notin C /\ hooked(op.id, Elicits)
                            THEN AfterCallback[a.fate[op.id]]
                            ELSE a.fate[op.id]
      BY <2>1, Zenon
    <3> HIDE DEF called, hooked
    <3> QED
      BY <2>2, <3>1, <3>2, SMT
  <2>4. hooked(op.id, OpType)
    BY <1>7, <2>1, Zenon DEF Held
  <2> HIDE DEF hooked, called
  <2>5. f[op.id] = AfterDestroy[called[op.id]]
    BY <2>1, <2>4, Zenon DEF f
  <2> QED
    BY <1>3, <2>3, <2>5, SMT DEF AfterDestroy, Fate
<1>8. ASSUME NEW i \in Ids, ~\E op \in Held(a) : op.id = i /\ op.hooked
      PROVE  b.fate[i] = a.fate[i]
  <2>1. ~hooked(i, Elicits) /\ ~hooked(i, OpType)
    BY <1>8, Zenon DEF Held
  <2>2. called[i] = a.fate[i]
    BY <2>1, Zenon
  <2> HIDE DEF hooked, called
  <2> QED
    BY <1>3, <2>1, <2>2, Zenon DEF f
<1>9. Tracked(b, {}, 0)
  <2>1. Held(b) \subseteq Held(a) /\ Held(a) \ Held(b) = Held(a)
    BY <1>6, Zenon
  <2> QED
    BY <1>3, <1>4, <1>7, <1>8, <2>1, OpsGone, Zenon
<1> QED
  BY <1>1, <1>3, <1>5, <1>6, <1>9, Zenon DEF Sound, b

\* The bearer that bt_att_free frees
FreedAtt(a) == [IoDestroyed(CancelAll(a), "freed") EXCEPT
                    !.pending_req = None, !.pending_ind = None, !.owed = {}]

LEMMA IoDestroyedView ==
    ASSUME NEW a \in Att, NEW io \in {"null", "freed"}
    PROVE  LET b == IoDestroyed(a, io)
           IN  /\ b \in Att /\ SameQueues(a, b) /\ b.fate = a.fate
               /\ b.io = io /\ ~b.reader /\ ~b.writer /\ ~b.writer_active
<1>1. IoDestroyed(a, io) \in Att
  BY IoDestroyedType
<1>2. SameQueues(a, IoDestroyed(a, io)) /\ IoDestroyed(a, io).fate = a.fate
  BY DEF IoDestroyed, Att, SameQueues
<1>3. /\ IoDestroyed(a, io).io = io
      /\ IoDestroyed(a, io).reader = FALSE
      /\ IoDestroyed(a, io).writer = FALSE
      /\ IoDestroyed(a, io).writer_active = FALSE
  BY DEF IoDestroyed, Att
<1> QED
  BY <1>1, <1>2, <1>3, Zenon

LEMMA DisconnectedSound ==
    ASSUME NEW a \in Att, NEW C, Sound(a, {}, 0)
    PROVE  LET b == DisconnectedAtt(a, C)
           IN  /\ Sound(b, {}, 0) /\ Held(b) = {}
               /\ b.pending_req = None /\ b.pending_ind = None
               /\ b.io = "null" /\ ~b.reader /\ ~b.writer /\ ~b.writer_active
<1> DEFINE i == IoDestroyed(a, "null")
           d == DisconnectAll(i, C)
           b == DisconnectedAtt(a, C)
<1>1. /\ i \in Att /\ Sound(i, {}, 0)
      /\ i.io = "null" /\ ~i.reader /\ ~i.writer /\ ~i.writer_active
  BY IoDestroyedView, SameSound
<1> HIDE DEF i
<1>2. /\ d \in Att /\ Sound(d, {}, 0) /\ Held(d) = {}
      /\ d.pending_req = None /\ d.pending_ind = None
      /\ d.io = "null" /\ ~d.reader /\ ~d.writer /\ ~d.writer_active
  <2>1. /\ d \in Att /\ Sound(d, {}, 0) /\ Held(d) = {}
        /\ SameWriter(i, d) /\ d.io = i.io /\ d.reader = i.reader
        /\ d.pending_req = None /\ d.pending_ind = None
    BY <1>1, DisconnectAllSound
  <2> HIDE DEF d
  <2> QED
    BY <1>1, <2>1, Zenon DEF SameWriter
<1> HIDE DEF d
<1>3. /\ SameQueues(d, b) /\ b.fate = d.fate /\ SameWriter(d, b)
      /\ b.io = d.io /\ b.reader = d.reader
  BY <1>2 DEF DisconnectedAtt, i, d, Att, SameQueues, SameWriter
<1> HIDE DEF b
<1>4. Sound(b, {}, 0) /\ Held(b) = Held(d)
  BY <1>2, <1>3, SameSound
<1> QED
  BY <1>2, <1>3, <1>4, Zenon DEF b, SameQueues, SameWriter

LEMMA FreedSound ==
    ASSUME NEW a \in Att, Sound(a, {}, 0)
    PROVE  LET b == FreedAtt(a)
           IN  /\ Sound(b, {}, 0) /\ Held(b) = {}
               /\ b.pending_req = None /\ b.pending_ind = None
               /\ b.io = "freed" /\ ~b.reader /\ ~b.writer /\ ~b.writer_active
<1> DEFINE c == CancelAll(a)
           i == IoDestroyed(c, "freed")
           b == FreedAtt(a)
<1>1. /\ c \in Att /\ Sound(c, {}, 0) /\ \A op \in Held(c) : ~op.hooked
      /\ c.req_queue = << >> /\ c.ind_queue = << >> /\ c.write_queue = << >>
  BY CancelAllSound
<1> HIDE DEF c
<1>2. /\ i \in Att /\ SameQueues(c, i) /\ i.fate = c.fate /\ i.io = "freed"
      /\ ~i.reader /\ ~i.writer /\ ~i.writer_active
  BY <1>1, IoDestroyedView
<1> HIDE DEF i
<1>3. /\ b.req_queue = i.req_queue /\ b.ind_queue = i.ind_queue
      /\ b.write_queue = i.write_queue
      /\ b.pending_req = None /\ b.pending_ind = None
      /\ b.next_send_id = i.next_send_id /\ b.fate = i.fate
      /\ b.io = i.io /\ b.reader = i.reader /\ SameWriter(i, b)
  BY <1>2 DEF FreedAtt, c, i, Att, SameWriter
<1> HIDE DEF b
<1>4. /\ b.req_queue = << >> /\ b.ind_queue = << >> /\ b.write_queue = << >>
      /\ b.fate = c.fate /\ b.next_send_id = c.next_send_id
  BY <1>1, <1>2, <1>3, Zenon DEF SameQueues
<1>5. Ordered(b) /\ Held(b) = {}
  BY <1>3, <1>4, EmptyQueue, Zenon DEF Ordered, Held, Queued, Pending
<1>6. Tracked(b, {}, 0)
  <2>1. Tracked(c, {}, 0)
    BY <1>1, Zenon DEF Sound
  <2>2. Held(b) \subseteq Held(c) /\ \A op \in Held(c) \ Held(b) : ~op.hooked
    BY <1>1, <1>5, Zenon
  <2> QED
    BY <1>4, <2>1, <2>2, OpsGone, Zenon
<1> QED
  BY <1>2, <1>3, <1>5, <1>6, Zenon DEF Sound, b, SameWriter

\* io_send failed: what can_write_data leaves of the op in its hands
FailedAtt(a, op) == [Destroy(a, op) EXCEPT !.lost = @ \/ op.answers # 0]

LEMMA FailedSound ==
    ASSUME NEW a \in Att, NEW op \in Op, NEW c \in {0, op.id}, Sound(a, {op}, c)
    PROVE  LET b == FailedAtt(a, op)
           IN  /\ Sound(b, {}, 0) /\ SameWriter(a, b) /\ b.io = a.io
               /\ b.reader = a.reader
               /\ b.pending_req = a.pending_req /\ b.pending_ind = a.pending_ind
<1> DEFINE d == Destroy(a, op)
           b == FailedAtt(a, op)
<1>1. d \in Att /\ Sound(d, {}, 0)
  BY InHandsDestroyed
<1>2. SameWriter(a, d) /\ SameLink(a, d) /\ SameQueues(a, d)
  BY DestroyView
<1> HIDE DEF d
<1>3. /\ b.req_queue = d.req_queue /\ b.ind_queue = d.ind_queue
      /\ b.write_queue = d.write_queue /\ b.fate = d.fate
      /\ b.pending_req = d.pending_req /\ b.pending_ind = d.pending_ind
      /\ b.next_send_id = d.next_send_id /\ SameWriter(d, b) /\ b.io = d.io
      /\ b.reader = d.reader
  BY <1>1 DEF FailedAtt, d, Att, SameWriter
<1> HIDE DEF b
<1>4. Ordered(d) /\ Tracked(d, {}, 0)
  BY <1>1, Zenon DEF Sound
<1>5. Ordered(b) /\ Held(b) = Held(d)
  BY <1>3, <1>4, Zenon DEF Ordered, Held, Queued, Pending
<1>6. Tracked(b, {}, 0)
  BY <1>3, <1>4, <1>5, Zenon DEF Tracked
<1> QED
  BY <1>2, <1>3, <1>5, <1>6, Zenon DEF Sound, b, SameWriter, SameLink, SameQueues

-----------------------------------------------------------------------------
(* The wakeups of the writer *)

\* writer_active says whether the io has its write handler
Watched(a) == a.writer_active <=> a.writer

\* NoLostWakeup of a bearer whose link is up
Awake(a) == Watched(a) /\ (a.io = "open" /\ Sendable(a) => a.writer)

\* No function below can_write_data and io_destroy takes the write handler away
Wakes(a, b) ==
    /\ b.io = a.io
    /\ Watched(a) => Watched(b)
    /\ Watched(a) /\ a.writer => b.writer
    /\ Awake(a) => Awake(b)

LEMMA WakesOn ==
    ASSUME NEW a, NEW b, NEW c, Wakes(a, b), Wakes(b, c)
    PROVE  Wakes(a, c)
BY Zenon DEF Wakes, Awake

LEMMA SleepsOn ==
    ASSUME NEW a, NEW b, SameWriter(a, b), b.io = a.io,
           Sendable(b) => Sendable(a)
    PROVE  Wakes(a, b)
BY Zenon DEF SameWriter, Wakes, Awake, Watched

LEMMA WakeupWriterView ==
    ASSUME NEW a \in Att
    PROVE  LET b == WakeupWriter(a)
           IN  /\ b \in Att /\ b.io = a.io
               /\ Sendable(b) <=> Sendable(a)
               /\ \/ SameWriter(a, b)
                       /\ ~(~a.writer_active /\ Sendable(a) /\ a.io = "open")
                  \/ b.writer /\ b.writer_active /\ ~a.writer_active
<1> DEFINE b == WakeupWriter(a)
<1>1. b \in Att /\ SameLink(a, b) /\ SameQueues(a, b)
  BY WakeupWriterType, WakeupWriterFrame
<1>2. CASE ~a.writer_active /\ Sendable(a) /\ a.io = "open"
  <2>1. b = [a EXCEPT !.writer = TRUE, !.writer_active = TRUE]
    BY <1>2, Zenon DEF WakeupWriter
  <2>2. b.writer = TRUE /\ b.writer_active = TRUE
    BY <2>1 DEF Att
  <2> QED
    BY <1>1, <1>2, <2>2, Zenon DEF SameLink, SameQueues, Sendable
<1>3. CASE ~(~a.writer_active /\ Sendable(a) /\ a.io = "open")
  <2>1. b = a
    BY <1>3, Zenon DEF WakeupWriter
  <2> QED
    BY <1>1, <1>3, <2>1, Zenon DEF SameWriter
<1> QED
  BY <1>2, <1>3

\* What a function does before its wakeup_writer cannot put the writer to sleep
LEMMA WakeupWriterWakes ==
    ASSUME NEW a, NEW d \in Att, SameWriter(a, d), d.io = a.io
    PROVE  /\ Wakes(a, WakeupWriter(d))
           /\ Watched(a) => Awake(WakeupWriter(d))
<1> DEFINE b == WakeupWriter(d)
<1>1. /\ b.io = d.io /\ (Sendable(b) <=> Sendable(d))
      /\ \/ SameWriter(d, b)
              /\ ~(~d.writer_active /\ Sendable(d) /\ d.io = "open")
         \/ b.writer /\ b.writer_active /\ ~d.writer_active
  BY WakeupWriterView
<1> HIDE DEF b
<1>2. ASSUME Watched(a)
      PROVE  Awake(b) /\ (a.writer => b.writer)
  BY <1>1, <1>2, Zenon DEF Watched, Awake, SameWriter
<1> QED
  BY <1>1, <1>2, Zenon DEF Wakes, Awake, b

LEMMA SendWakes ==
    ASSUME NEW a \in Att, NEW type \in OpType, NEW r \in Requests \cup {0}
    PROVE  Wakes(a, Send(a, type, r))
<1>1. CASE a.io = "open" /\ a.next_send_id \in Ids
  <2> DEFINE op == SentOp(a, type, r)
             b == [a EXCEPT !.next_send_id = @ + 1]
             c == Fated(b, op.id, "open")
             d == Push(c, op)
  <2>1. op \in Op /\ op.id \in Ids
    BY <1>1 DEF Op, OpOf, SentOp
  <2>2. a.next_send_id + 1 \in 1 .. MaxOps + 1
    BY <1>1, BoundsAssumption DEF Ids
  <2>3. b \in Att /\ SameWriter(a, b) /\ b.io = a.io
    BY <2>2 DEF Att, SameWriter
  <2>4. c \in Att
    BY <2>1, <2>3, FatedType DEF Fate
  <2>5. SameLink(b, c) /\ SameWriter(b, c)
    BY <2>3, FatedFrame
  <2>6. d \in Att /\ SameLink(c, d) /\ SameWriter(c, d)
    BY <2>1, <2>4, PushType, PushFrame
  <2>7. Send(a, type, r) = WakeupWriter(d)
    BY <1>1 DEF Send, SentOp
  <2> HIDE DEF b, c, d
  <2>8. SameWriter(a, d) /\ d.io = a.io
    BY <2>3, <2>5, <2>6, Zenon DEF SameWriter, SameLink
  <2> QED
    BY <2>6, <2>7, <2>8, WakeupWriterWakes
<1>2. CASE ~(a.io = "open" /\ a.next_send_id \in Ids)
  <2>1. Send(a, type, r) = a
    BY <1>2, Zenon DEF Send
  <2> QED
    BY <2>1, Zenon DEF Wakes
<1> QED
  BY <1>1, <1>2

LEMMA CancelPendingWakes ==
    ASSUME NEW a \in Att
    PROVE  /\ a.pending_req # None => Wakes(a, CancelPendingReq(a))
           /\ a.pending_ind # None => Wakes(a, CancelPendingInd(a))
<1>1. ASSUME a.pending_req # None
      PROVE  Wakes(a, CancelPendingReq(a))
  <2> DEFINE d == Destroy(a, a.pending_req)
             b == CancelPendingReq(a)
  <2>1. /\ d \in Att /\ SameLink(a, d) /\ SameQueues(a, d) /\ SameWriter(a, d)
        /\ a.pending_req \in Op
    BY <1>1, HeldOps, DestroyView
  <2>2. /\ SameWriter(d, b) /\ b.io = d.io
        /\ b.req_queue = d.req_queue /\ b.ind_queue = d.ind_queue
        /\ b.write_queue = d.write_queue /\ b.pending_ind = d.pending_ind
        /\ b.pending_req = Stripped(a.pending_req)
    BY <2>1 DEF CancelPendingReq, Att, SameWriter, SameQueues
  <2>3. Stripped(a.pending_req) # None
    BY <2>1, StrippedType, NoneAssumption DEF Op
  <2> HIDE DEF b, d
  <2>4. SameWriter(a, b) /\ b.io = a.io /\ (Sendable(b) => Sendable(a))
    BY <2>1, <2>2, <2>3, Zenon DEF SameWriter, SameLink, SameQueues, Sendable
  <2> QED
    BY <2>4, SleepsOn DEF b
<1>2. ASSUME a.pending_ind # None
      PROVE  Wakes(a, CancelPendingInd(a))
  <2> DEFINE d == Destroy(a, a.pending_ind)
             b == CancelPendingInd(a)
  <2>1. /\ d \in Att /\ SameLink(a, d) /\ SameQueues(a, d) /\ SameWriter(a, d)
        /\ a.pending_ind \in Op
    BY <1>2, HeldOps, DestroyView
  <2>2. /\ SameWriter(d, b) /\ b.io = d.io
        /\ b.req_queue = d.req_queue /\ b.ind_queue = d.ind_queue
        /\ b.write_queue = d.write_queue /\ b.pending_req = d.pending_req
        /\ b.pending_ind = Stripped(a.pending_ind)
    BY <2>1 DEF CancelPendingInd, Att, SameWriter, SameQueues
  <2>3. Stripped(a.pending_ind) # None
    BY <2>1, StrippedType, NoneAssumption DEF Op
  <2> HIDE DEF b, d
  <2>4. SameWriter(a, b) /\ b.io = a.io /\ (Sendable(b) => Sendable(a))
    BY <2>1, <2>2, <2>3, Zenon DEF SameWriter, SameLink, SameQueues, Sendable
  <2> QED
    BY <2>4, SleepsOn DEF b
<1> QED
  BY <1>1, <1>2

\* An op is taken out of its queue and destroyed, then wakeup_writer runs
LEMMA DestroyWakes ==
    ASSUME NEW a \in Att, NEW b \in Att, SameWriter(a, b), b.io = a.io,
           NEW op \in Op
    PROVE  Wakes(a, WakeupWriter(Destroy(b, op)))
<1>1. /\ Destroy(b, op) \in Att /\ SameLink(b, Destroy(b, op))
      /\ SameWriter(b, Destroy(b, op))
  BY DestroyView
<1>2. SameWriter(a, Destroy(b, op)) /\ Destroy(b, op).io = a.io
  BY <1>1, Zenon DEF SameWriter, SameLink
<1> QED
  BY <1>1, <1>2, WakeupWriterWakes

LEMMA CancelQueuedWakes ==
    ASSUME NEW a \in Att
    PROVE  /\ \A k \in DOMAIN a.req_queue : Wakes(a, CancelReq(a, k))
           /\ \A k \in DOMAIN a.ind_queue : Wakes(a, CancelInd(a, k))
           /\ \A k \in DOMAIN a.write_queue : Wakes(a, CancelWrite(a, k))
<1>0. /\ a.req_queue \in Seq(ReqOp) /\ a.ind_queue \in Seq(IndOp)
      /\ a.write_queue \in Seq(WriteOp)
  BY DEF Att
<1>1. ASSUME NEW k \in DOMAIN a.req_queue
      PROVE  Wakes(a, CancelReq(a, k))
  <2> DEFINE b == [a EXCEPT !.req_queue = RemoveAt(@, k)]
  <2>1. RemoveAt(a.req_queue, k) \in Seq(ReqOp) /\ a.req_queue[k] \in Op
    BY <1>0, RemoveAtType, OpSets, ElementOfSeq, LenProperties
  <2>2. b \in Att
    BY <2>1, Zenon DEF Att
  <2>3. SameWriter(a, b) /\ b.io = a.io
    BY DEF Att, SameWriter
  <2> HIDE DEF b
  <2> QED
    BY <2>1, <2>2, <2>3, DestroyWakes DEF CancelReq, b
<1>2. ASSUME NEW k \in DOMAIN a.ind_queue
      PROVE  Wakes(a, CancelInd(a, k))
  <2> DEFINE b == [a EXCEPT !.ind_queue = RemoveAt(@, k)]
  <2>1. RemoveAt(a.ind_queue, k) \in Seq(IndOp) /\ a.ind_queue[k] \in Op
    BY <1>0, RemoveAtType, OpSets, ElementOfSeq, LenProperties
  <2>2. b \in Att
    BY <2>1, Zenon DEF Att
  <2>3. SameWriter(a, b) /\ b.io = a.io
    BY DEF Att, SameWriter
  <2> HIDE DEF b
  <2> QED
    BY <2>1, <2>2, <2>3, DestroyWakes DEF CancelInd, b
<1>3. ASSUME NEW k \in DOMAIN a.write_queue
      PROVE  Wakes(a, CancelWrite(a, k))
  <2> DEFINE b == [a EXCEPT !.write_queue = RemoveAt(@, k)]
  <2>1. RemoveAt(a.write_queue, k) \in Seq(WriteOp) /\ a.write_queue[k] \in Op
    BY <1>0, RemoveAtType, OpSets, ElementOfSeq, LenProperties
  <2>2. b \in Att
    BY <2>1, Zenon DEF Att
  <2>3. SameWriter(a, b) /\ b.io = a.io
    BY DEF Att, SameWriter
  <2> HIDE DEF b
  <2> QED
    BY <2>1, <2>2, <2>3, DestroyWakes DEF CancelWrite, b
<1> QED
  BY <1>1, <1>2, <1>3

LEMMA ReactionsWake ==
    ASSUME NEW a \in Att, NEW b \in Reactions(a)
    PROVE  Wakes(a, b)
<1>1. ASSUME b \in Submitted(a)
      PROVE  Wakes(a, b)
  <2>1. PICK t \in UserOps : b = Send(a, t, 0)
    BY <1>1 DEF Submitted
  <2> QED
    BY <2>1, UserAssumption, SendWakes
<1>2. ASSUME b \in Cancelled(a)
      PROVE  Wakes(a, b)
  BY <1>2, CancelPendingWakes, CancelQueuedWakes DEF Cancelled
<1>3. Wakes(a, a)
  BY Zenon DEF Wakes
<1> QED
  BY <1>1, <1>2, <1>3 DEF Reactions

LEMMA AfterCallWakes ==
    ASSUME NEW a \in Att, NEW op \in Op, NEW b \in AfterCall(a, op)
    PROVE  Wakes(a, b)
<1>1. CASE op.hooked
  <2>1. /\ Callback(a, op) \in Att /\ SameLink(a, Callback(a, op))
        /\ SameQueues(a, Callback(a, op)) /\ SameWriter(a, Callback(a, op))
    BY CallbackType, CallbackFrame
  <2>2. Wakes(a, Callback(a, op))
    <3>1. Sendable(Callback(a, op)) => Sendable(a)
      BY <2>1, Zenon DEF SameQueues, Sendable
    <3> QED
      BY <2>1, <3>1, SleepsOn DEF SameLink
  <2>3. Wakes(Callback(a, op), b)
    BY <1>1, <2>1, ReactionsWake DEF AfterCall
  <2> QED
    BY <2>2, <2>3, WakesOn
<1>2. CASE ~op.hooked
  BY <1>2, Zenon DEF AfterCall, Wakes
<1> QED
  BY <1>1, <1>2

-----------------------------------------------------------------------------
(* The slots of what is on the air *)

\* OneOutstanding of a step from a to b
OneSlot(a, b) ==
    /\ b.pending_req # None /\ b.pending_req # a.pending_req
           /\ a.pending_req # None
       => b.pending_req = Stripped(a.pending_req)
    /\ b.pending_ind # None /\ b.pending_ind # a.pending_ind
           /\ a.pending_ind # None
       => b.pending_ind = Stripped(a.pending_ind)
    /\ a.pending_req \in ToSet(b.req_queue) => b.sec > a.sec

\* The slot of the indication is empty before or after, or it is kept
IndSlot(a, b) ==
    \/ a.pending_ind = None \/ b.pending_ind = None
    \/ b.pending_ind \in {a.pending_ind, Stripped(a.pending_ind)}

\* A pending request that stays where it is comes back to no queue
LEMMA SlotsStay ==
    ASSUME NEW a \in Att, NEW b \in Att, Sound(b, {}, 0), IndSlot(a, b),
           \/ a.pending_req = None
           \/ b.pending_req \in {a.pending_req, Stripped(a.pending_req)}
    PROVE  OneSlot(a, b)
<1>1. Ordered(b) /\ ToSet(b.req_queue) \subseteq Op
  BY HeldOps, OpSets, Zenon DEF Sound
<1>2. CASE a.pending_req = None
  BY <1>1, <1>2, OpSets, Zenon DEF OneSlot, IndSlot
<1>3. CASE a.pending_req # None
  <2>1. a.pending_req \in Op
    BY <1>3, HeldOps
  <2>2. /\ Stripped(a.pending_req) \in Op
        /\ Stripped(a.pending_req).id = a.pending_req.id
        /\ a.pending_req.id \in Int
    BY <2>1, StrippedType DEF Stripped, Op, OpOf, Ids
  <2>3. b.pending_req # None /\ b.pending_req.id = a.pending_req.id
    BY <1>3, <2>2, OpSets, Zenon
  <2>4. \A op \in ToSet(b.req_queue) : a.pending_req.id < op.id
    BY <1>1, <2>3, Zenon DEF Ordered
  <2>5. a.pending_req \notin ToSet(b.req_queue)
    BY <2>2, <2>4
  <2> QED
    BY <1>3, <2>5, Zenon DEF OneSlot, IndSlot
<1> QED
  BY <1>2, <1>3

\* A pending request that ended is held no more
LEMMA SlotsFree ==
    ASSUME NEW a \in Att, NEW b \in Att,
           a.pending_req = None \/ b.pending_req = None, IndSlot(a, b),
           a.pending_req # None =>
               \A op \in Held(b) : op.id # a.pending_req.id
    PROVE  OneSlot(a, b)
<1>1. ToSet(b.req_queue) \subseteq Op /\ ToSet(b.req_queue) \subseteq Held(b)
  BY HeldOps, OpSets, Zenon DEF Held, Queued
<1>2. a.pending_req \notin ToSet(b.req_queue)
  BY <1>1, OpSets, Zenon
<1> QED
  BY <1>2, Zenon DEF OneSlot, IndSlot

LEMMA TransmittedView ==
    ASSUME NEW a \in Att, NEW op \in Op
    PROVE  LET b == Transmitted(a, op)
           IN  /\ SameWriter(a, b) /\ b.io = a.io
               /\ b.pending_req = IF op.type = "REQ" THEN op ELSE a.pending_req
               /\ b.pending_ind = IF op.type = "IND" THEN op ELSE a.pending_ind
<1> DEFINE b == Transmitted(a, op)
<1>1. CASE op.type = "REQ"
  <2>1. b = [a EXCEPT !.pending_req = op]
    BY <1>1, Zenon DEF Transmitted
  <2>2. /\ SameWriter(a, b) /\ b.io = a.io
        /\ b.pending_req = op /\ b.pending_ind = a.pending_ind
    BY <2>1 DEF Att, SameWriter
  <2> HIDE DEF b
  <2> QED
    BY <1>1, <2>2, SMT DEF b
<1>2. CASE op.type = "IND"
  <2>1. b = [a EXCEPT !.pending_ind = op]
    BY <1>2, SMT DEF Transmitted
  <2>2. /\ SameWriter(a, b) /\ b.io = a.io
        /\ b.pending_req = a.pending_req /\ b.pending_ind = op
    BY <2>1 DEF Att, SameWriter
  <2> HIDE DEF b
  <2> QED
    BY <1>2, <2>2, SMT DEF b
<1>3. CASE op.type \notin {"REQ", "IND"}
  <2> DEFINE o == a.owed \ {op.answers}
             q == IF op.type = "RSP"
                  THEN [a EXCEPT !.in_req = FALSE, !.owed = o] ELSE a
  <2>1. q \in Att
    <3>1. o \in SUBSET Requests
      BY DEF Att
    <3> HIDE DEF o
    <3> QED
      BY <3>1, Zenon DEF Att
  <2>2. /\ SameWriter(a, q) /\ q.io = a.io
        /\ q.pending_req = a.pending_req /\ q.pending_ind = a.pending_ind
    BY DEF Att, SameWriter
  <2>3. b = Destroy(q, op)
    BY <1>3, SMT DEF Transmitted
  <2> HIDE DEF q, b
  <2>4. SameWriter(q, b) /\ SameLink(q, b) /\ SameQueues(q, b)
    BY <2>1, <2>3, DestroyView
  <2>5. /\ SameWriter(a, b) /\ b.io = a.io
        /\ b.pending_req = a.pending_req /\ b.pending_ind = a.pending_ind
    BY <2>2, <2>4, Zenon DEF SameWriter, SameLink, SameQueues
  <2> QED
    BY <1>3, <2>5, SMT DEF b
<1> QED
  BY <1>1, <1>2, <1>3

-----------------------------------------------------------------------------
(* The inductive invariant *)

Ended ==
    att.io # "open" => /\ Held(att) = {} /\ ev = {}
                       /\ ~att.writer /\ ~att.reader

\* The hooks and the order of the ops; the wakeups; and the end of the bearer,
\* which leaves no event to io_callback, for a handler would find an op to end
OpInv ==
    /\ TypeOK
    /\ Sound(att, {}, 0)
    /\ Watched(att)
    /\ link = "up" => Awake(att)
    /\ Ended

\* What a handler must see to, besides the types
OpStep ==
    /\ Sound(att', {}, 0)
    /\ Watched(att')
    /\ link' = "up" => Awake(att')
    /\ Ended'
    /\ OneSlot(att, att')

\* A handler that leaves the io open
LEMMA HandlerStep ==
    ASSUME att.io = "open", att'.io = att.io, Sound(att', {}, 0),
           Watched(att'), link' = "up" => Awake(att'), OneSlot(att, att')
    PROVE  OpStep
BY Zenon DEF OpStep, Ended

LEMMA WakingStep ==
    ASSUME OpInv, att.io = "open", Sound(att', {}, 0), Wakes(att, att'),
           link' = "up" => link = "up", OneSlot(att, att')
    PROVE  OpStep
<1>1. /\ Watched(att) /\ att'.io = att.io /\ Watched(att')
      /\ link' = "up" => Awake(att')
  BY Zenon DEF OpInv, Wakes
<1> QED
  BY <1>1, HandlerStep

\* io_callback has an event to handle only while the bearer has its io
LEMMA HandlerOpen ==
    ASSUME OpInv, ev # {}
    PROVE  att.io = "open"
BY Zenon DEF OpInv, Ended

LEMMA ReadOpen ==
    ASSUME OpInv, NEW pdus, Read(pdus)
    PROVE  att.io = "open"
<1>1. ev # {}
  BY Zenon DEF Read
<1> QED
  BY <1>1, HandlerOpen

\* The end of what is pending, after its callback
LEMMA EndReqStep ==
    ASSUME OpInv, TypeOK', att.io = "open", att.pending_req # None,
           NEW a \in AfterCall(att, att.pending_req), att' = EndReq(a),
           link' = link
    PROVE  OpStep
<1> DEFINE e == EndedReq(a)
           op == att.pending_req
<1>1. /\ att \in Att /\ att' \in Att /\ Sound(att, {}, 0)
      /\ op \in Op /\ op \in Held(att) \cup {}
  BY HeldOps DEF OpInv, TypeOK
<1>2. a \in Att /\ Sound(a, {}, op.id) /\ PendingStays(att, a) /\ Wakes(att, a)
  BY <1>1, AfterCallSound, AfterCallWakes
<1>3. a.pending_req # None /\ a.pending_req.id = op.id
  <2>1. Stripped(op).id = op.id /\ Stripped(op) \in Op
    BY <1>1, StrippedType DEF Stripped, Op, OpOf
  <2> QED
    BY <1>2, <2>1, OpSets, Zenon DEF PendingStays
<1>4. /\ e \in Att /\ Sound(e, {}, 0) /\ SameLink(a, e) /\ SameWriter(a, e)
      /\ e.pending_req = None /\ e.pending_ind = a.pending_ind
      /\ \A p \in Held(e) : p.id # op.id
  BY <1>2, <1>3, EndedReqSound
<1>5. att' = WakeupWriter(e)
  BY DEF EndReq, EndedReq
<1> HIDE DEF e
<1>6. /\ Sound(att', {}, 0) /\ Held(att') = Held(e)
      /\ att'.pending_req = None /\ att'.pending_ind = a.pending_ind
  BY <1>4, <1>5, WakeupWriterSound, WakeupWriterFrame DEF SameQueues
<1>7. Wakes(att, att')
  <2>1. Wakes(a, att')
    BY <1>4, <1>5, WakeupWriterWakes DEF SameLink
  <2> QED
    BY <1>2, <2>1, WakesOn
<1>8. OneSlot(att, att')
  BY <1>1, <1>2, <1>4, <1>6, SlotsFree, Zenon DEF PendingStays, IndSlot
<1> QED
  BY <1>6, <1>7, <1>8, WakingStep

LEMMA EndIndStep ==
    ASSUME OpInv, TypeOK', att.io = "open", att.pending_ind # None,
           NEW a \in AfterCall(att, att.pending_ind), att' = EndInd(a),
           link' = link
    PROVE  OpStep
<1> DEFINE e == EndedInd(a)
           op == att.pending_ind
<1>1. /\ att \in Att /\ att' \in Att /\ Sound(att, {}, 0)
      /\ op \in Op /\ op \in Held(att) \cup {}
  BY HeldOps DEF OpInv, TypeOK
<1>2. a \in Att /\ Sound(a, {}, op.id) /\ PendingStays(att, a) /\ Wakes(att, a)
  BY <1>1, AfterCallSound, AfterCallWakes
<1>3. a.pending_ind # None /\ a.pending_ind.id = op.id
  <2>1. Stripped(op).id = op.id /\ Stripped(op) \in Op
    BY <1>1, StrippedType DEF Stripped, Op, OpOf
  <2> QED
    BY <1>2, <2>1, OpSets, Zenon DEF PendingStays
<1>4. /\ e \in Att /\ Sound(e, {}, 0) /\ SameLink(a, e) /\ SameWriter(a, e)
      /\ e.pending_ind = None /\ e.pending_req = a.pending_req
  BY <1>2, <1>3, EndedIndSound
<1>5. att' = WakeupWriter(e)
  BY DEF EndInd, EndedInd
<1> HIDE DEF e
<1>6. /\ Sound(att', {}, 0)
      /\ att'.pending_ind = None /\ att'.pending_req = a.pending_req
  BY <1>4, <1>5, WakeupWriterSound, WakeupWriterFrame DEF SameQueues
<1>7. Wakes(att, att')
  <2>1. Wakes(a, att')
    BY <1>4, <1>5, WakeupWriterWakes DEF SameLink
  <2> QED
    BY <1>2, <2>1, WakesOn
<1>8. OneSlot(att, att')
  BY <1>1, <1>2, <1>6, SlotsStay, Zenon DEF PendingStays, IndSlot
<1> QED
  BY <1>6, <1>7, <1>8, WakingStep

\* What only changes the reader, the request at work or the answers owed
LEMMA QuietStep ==
    ASSUME OpInv, TypeOK', att.io = "open", NEW b \in Att, Sound(b, {}, 0),
           Wakes(att, b), PendingStays(att, b),
           SameQueues(b, att'), SameWriter(b, att'), att'.fate = b.fate,
           att'.io = b.io, link' = "up" => link = "up"
    PROVE  OpStep
<1>1. att \in Att /\ att' \in Att
  BY DEF OpInv, TypeOK
<1>2. Sound(att', {}, 0)
  BY SameSound
<1>3. Wakes(att, att')
  <2>1. Sendable(att') => Sendable(b)
    BY Zenon DEF SameQueues, Sendable
  <2> QED
    BY <2>1, SleepsOn, WakesOn
<1>4. OneSlot(att, att')
  BY <1>1, <1>2, SlotsStay, Zenon DEF PendingStays, IndSlot, SameQueues
<1> QED
  BY <1>2, <1>3, <1>4, WakingStep

\* bt_att_send is the last call of a handler
LEMMA SendStep ==
    ASSUME OpInv, TypeOK', att.io = "open", NEW b \in Att, Sound(b, {}, 0),
           Wakes(att, b), PendingStays(att, b), NEW r \in Requests \cup {0},
           att' = Send(b, "RSP", r), link' = "up" => link = "up"
    PROVE  OpStep
<1>0. "RSP" \in OpType
  BY DEF OpType
<1>1. att \in Att /\ att' \in Att
  BY DEF OpInv, TypeOK
<1>2. /\ Sound(att', {}, 0)
      /\ att'.pending_req = b.pending_req /\ att'.pending_ind = b.pending_ind
  BY <1>0, SendSound
<1>3. Wakes(att, att')
  BY <1>0, SendWakes, WakesOn
<1>4. OneSlot(att, att')
  BY <1>1, <1>2, SlotsStay, Zenon DEF PendingStays, IndSlot
<1> QED
  BY <1>2, <1>3, <1>4, WakingStep

LEMMA ReactionStep ==
    ASSUME OpInv, TypeOK', att.io = "open", att' \in Reactions(att),
           link' = "up" => link = "up"
    PROVE  OpStep
<1>1. att \in Att /\ att' \in Att /\ Sound(att, {}, 0)
  BY DEF OpInv, TypeOK
<1>2. Sound(att', {}, 0) /\ PendingStays(att, att') /\ Wakes(att, att')
  BY <1>1, ReactionsSound, ReactionsWake
<1>3. OneSlot(att, att')
  BY <1>1, <1>2, SlotsStay, Zenon DEF PendingStays, IndSlot
<1> QED
  BY <1>2, <1>3, WakingStep

LEMMA ReadingOps ==
    ASSUME OpInv, TypeOK', Reading
    PROVE  OpStep
<1>0. att \in Att /\ att' \in Att /\ Sound(att, {}, 0)
  BY DEF OpInv, TypeOK
<1>1. Wakes(att, att) /\ PendingStays(att, att)
  BY Zenon DEF Wakes, PendingStays
<1>2. CASE ReadNothing
  <2>1. att.io = "open" /\ link' = link
    <3>1. ev # {}
      BY <1>2, Zenon DEF ReadNothing
    <3> QED
      BY <1>2, <3>1, HandlerOpen, Zenon DEF ReadNothing
  <2>2. /\ SameQueues(att, att') /\ SameWriter(att, att')
        /\ att'.fate = att.fate /\ att'.io = att.io
    BY <1>0, <1>2 DEF ReadNothing, Att, SameQueues, SameWriter
  <2> QED
    BY <1>0, <1>1, <2>1, <2>2, QuietStep
<1>3. CASE ReadUnexpected
  <2>1. att.io = "open" /\ att' = att /\ link' = "down"
    BY <1>3, ReadOpen, Zenon DEF ReadUnexpected
  <2>2. /\ SameQueues(att, att') /\ SameWriter(att, att')
        /\ att'.fate = att.fate /\ att'.io = att.io
    BY <2>1, Zenon DEF SameQueues, SameWriter
  <2> QED
    BY <1>0, <1>1, <2>1, <2>2, QuietStep
<1>4. CASE ReadRetry
  <2> DEFINE l == Raised(att.sec, Head(rx))
             q == Requeued(att, l)
  <2>1. /\ att.io = "open" /\ link' = link /\ att.pending_req # None
        /\ l > att.sec /\ att' = WakeupWriter(q)
    BY <1>4, ReadOpen, Zenon DEF ReadRetry
  <2>2. l \in LOW .. HIGH
    BY <1>0 DEF Raised, LOW, MEDIUM, HIGH, Att
  <2> HIDE DEF l
  <2>3. q \in Att /\ Sound(q, {}, 0)
    BY <1>0, <2>1, <2>2, RequeuedSound
  <2>4. /\ SameWriter(att, q) /\ q.io = att.io /\ q.sec = l
        /\ q.pending_req = None /\ q.pending_ind = att.pending_ind
    BY <1>0 DEF Requeued, Att, SameWriter
  <2> HIDE DEF q
  <2>5. Sound(att', {}, 0) /\ SameLink(q, att') /\ SameQueues(q, att')
    BY <2>1, <2>3, WakeupWriterSound, WakeupWriterFrame
  <2>6. Wakes(att, att')
    BY <2>1, <2>3, <2>4, WakeupWriterWakes
  <2>7. OneSlot(att, att')
    <3>1. /\ att'.pending_req = None /\ att'.pending_ind = att.pending_ind
          /\ att'.sec = l
      BY <2>4, <2>5, Zenon DEF SameLink, SameQueues
    <3> QED
      BY <2>1, <3>1, Zenon DEF OneSlot
  <2> QED
    BY <2>1, <2>5, <2>6, <2>7, WakingStep
<1>5. CASE ReadRsp
  <2>1. /\ att.io = "open" /\ link' = link /\ att.pending_req # None
        /\ \E a \in AfterCall(att, att.pending_req) : att' = EndReq(a)
    BY <1>5, ReadOpen, Zenon DEF ReadRsp
  <2> QED
    BY <2>1, EndReqStep
<1>6. CASE ReadConf
  <2>1. /\ att.io = "open" /\ link' = link /\ att.pending_ind # None
        /\ \E a \in AfterCall(att, att.pending_ind) : att' = EndInd(a)
    BY <1>6, ReadOpen, Zenon DEF ReadConf
  <2> QED
    BY <2>1, EndIndStep
<1>7. CASE ReadReq
  <2> DEFINE r == peerTx - Len(rx) + 1
             t == TakeRequest(att, r)
  <2>1. att.io = "open" /\ link' = link
    BY <1>7, ReadOpen, Zenon DEF ReadReq
  <2>2. r \in Requests
    BY <1>7, ReadType DEF ReadReq, OpInv
  <2>3. PICK a \in Reactions(t) :
            \/ att' = Send(a, "RSP", r)
            \/ att' = [a EXCEPT !.working = @ \cup {r}]
    BY <1>7, Zenon DEF ReadReq
  <2> HIDE DEF r
  <2>4. t \in Att
    <3>1. att.owed \cup {r} \in SUBSET Requests
      BY <1>0, <2>2 DEF Att
    <3> QED
      BY <1>0, <3>1, Zenon DEF TakeRequest, Att
  <2>5. /\ SameQueues(att, t) /\ SameWriter(att, t) /\ t.io = att.io
        /\ t.fate = att.fate
    BY <1>0 DEF TakeRequest, Att, SameQueues, SameWriter
  <2> HIDE DEF t
  <2>6. Sound(t, {}, 0) /\ Wakes(att, t)
    <3>1. Sendable(t) => Sendable(att)
      BY <2>5, Zenon DEF SameQueues, Sendable
    <3> QED
      BY <1>0, <2>5, <3>1, SameSound, SleepsOn
  <2>7. a \in Att /\ Sound(a, {}, 0) /\ PendingStays(t, a) /\ Wakes(t, a)
    BY <2>3, <2>4, <2>6, ReactionsSound, ReactionsWake
  <2>8. Wakes(att, a) /\ PendingStays(att, a)
    BY <2>5, <2>6, <2>7, WakesOn, Zenon DEF PendingStays, SameQueues
  <2>9. CASE att' = Send(a, "RSP", r)
    BY <2>1, <2>2, <2>7, <2>8, <2>9, SendStep
  <2>10. CASE att' = [a EXCEPT !.working = @ \cup {r}]
    <3>1. /\ SameQueues(a, att') /\ SameWriter(a, att')
          /\ att'.fate = a.fate /\ att'.io = a.io
      BY <2>7, <2>10 DEF Att, SameQueues, SameWriter
    <3> QED
      BY <2>1, <2>7, <2>8, <3>1, QuietStep
  <2> QED
    BY <2>3, <2>9, <2>10
<1>8. CASE ReadSecondReq
  <2>1. att.io = "open" /\ link' = "down" /\ att' = [att EXCEPT !.reader = FALSE]
    BY <1>8, ReadOpen, Zenon DEF ReadSecondReq
  <2>2. /\ SameQueues(att, att') /\ SameWriter(att, att')
        /\ att'.fate = att.fate /\ att'.io = att.io
    BY <1>0, <2>1 DEF Att, SameQueues, SameWriter
  <2> QED
    BY <1>0, <1>1, <2>1, <2>2, QuietStep
<1>9. CASE ReadCmd
  <2>1. att.io = "open" /\ link' = link /\ att' \in Reactions(att)
    BY <1>9, ReadOpen, Zenon DEF ReadCmd
  <2> QED
    BY <2>1, ReactionStep
<1>10. CASE ReadUnhandled
  <2>1. att.io = "open" /\ link' = link /\ att' = Send(att, "RSP", 0)
    BY <1>10, ReadOpen, Zenon DEF ReadUnhandled
  <2> QED
    BY <1>0, <1>1, <2>1, SendStep
<1> QED
  BY <1>2, <1>3, <1>4, <1>5, <1>6, <1>7, <1>8, <1>9, <1>10 DEF Reading

LEMMA WritingOps ==
    ASSUME OpInv, TypeOK', Writing
    PROVE  OpStep
<1>0. /\ att \in Att /\ att' \in Att /\ Sound(att, {}, 0) /\ Ordered(att)
      /\ Watched(att)
      /\ link = "up" => Awake(att)
  BY Zenon DEF OpInv, TypeOK, Sound
<1>1. att.io = "open" /\ link' = link
  <2>1. ev # {} /\ link' = link
    BY Zenon DEF Writing, WriteSend, WriteFail, WriteIdle, Write
  <2> QED
    BY <2>1, HandlerOpen
<1> DEFINE p == Popped(att)
           op == NextOp(att)
<1>2. ASSUME Sendable(att)
      PROVE  /\ p \in Att /\ op \in Op /\ Sound(p, {op}, 0)
             /\ SameWriter(att, p) /\ p.io = att.io
             /\ p.pending_req = att.pending_req /\ p.pending_ind = att.pending_ind
             /\ op.type = "REQ" => att.pending_req = None
             /\ op.type = "IND" => att.pending_ind = None
             /\ link = "up" => att.writer
  <2>1. link = "up" => att.writer
    BY <1>0, <1>1, <1>2, Zenon DEF Awake
  <2> QED
    BY <1>0, <1>2, <2>1, PoppedView, PoppedSound DEF SameLink
<1>3. CASE WriteSend
  <2>1. Sendable(att) /\ att' = Transmitted(p, op)
    BY <1>3, Zenon DEF WriteSend
  <2>2. Sound(att', {}, 0)
    BY <1>0, <2>1, TransmittedSound
  <2> HIDE DEF p, op
  <2>3. /\ SameWriter(p, att') /\ att'.io = p.io
        /\ att'.pending_req = IF op.type = "REQ" THEN op ELSE p.pending_req
        /\ att'.pending_ind = IF op.type = "IND" THEN op ELSE p.pending_ind
    BY <1>2, <2>1, TransmittedView
  <2>4. SameWriter(att, att') /\ att'.io = att.io
    BY <1>2, <2>1, <2>3, Zenon DEF SameWriter
  <2>5. Watched(att') /\ (link' = "up" => Awake(att'))
    BY <1>0, <1>1, <1>2, <2>1, <2>4, Zenon DEF Watched, Awake, SameWriter
  <2>6. OneSlot(att, att')
    <3>1. att.pending_req = None \/ att'.pending_req = att.pending_req
      BY <1>2, <2>1, <2>3, Zenon
    <3>2. att.pending_ind = None \/ att'.pending_ind = att.pending_ind
      BY <1>2, <2>1, <2>3, Zenon
    <3> QED
      BY <1>0, <2>2, <3>1, <3>2, SlotsStay, Zenon DEF IndSlot
  <2> QED
    BY <1>1, <2>2, <2>4, <2>5, <2>6, HandlerStep
<1>4. CASE WriteFail
  <2>1. Sendable(att)
    BY <1>4, Zenon DEF WriteFail
  <2>2. PICK a \in AfterCall(p, op) : att' = FailedAtt(a, op)
    BY <1>4, Zenon DEF WriteFail, FailedAtt
  <2> HIDE DEF p, op
  <2>3. /\ a \in Att /\ Sound(a, {op}, op.id) /\ PendingStays(p, a)
        /\ Wakes(p, a)
    <3>1. op \in Held(p) \cup {op}
      OBVIOUS
    <3> QED
      BY <1>2, <2>1, <2>2, <3>1, AfterCallSound, AfterCallWakes
  <2>4. /\ Sound(att', {}, 0) /\ SameWriter(a, att') /\ att'.io = a.io
        /\ att'.pending_req = a.pending_req /\ att'.pending_ind = a.pending_ind
    BY <1>2, <2>1, <2>2, <2>3, FailedSound
  <2>5. Watched(p) /\ (p.writer <=> att.writer) /\ p.io = att.io
    BY <1>0, <1>2, <2>1, Zenon DEF Watched, SameWriter
  <2>6. Watched(a) /\ (att.writer => a.writer) /\ a.io = att.io
    BY <2>3, <2>5, Zenon DEF Wakes
  <2>7. /\ Watched(att') /\ att'.io = att.io
        /\ link' = "up" => Awake(att')
    BY <1>1, <1>2, <2>1, <2>4, <2>6, Zenon DEF Watched, Awake, SameWriter
  <2>8. OneSlot(att, att')
    <3>1. PendingStays(att, att')
      BY <1>2, <2>1, <2>3, <2>4, Zenon DEF PendingStays
    <3> QED
      BY <1>0, <2>4, <3>1, SlotsStay, Zenon DEF PendingStays, IndSlot
  <2> QED
    BY <1>1, <2>4, <2>7, <2>8, HandlerStep
<1>5. CASE WriteIdle
  <2>1. ~Sendable(att)
        /\ att' = [att EXCEPT !.writer = FALSE, !.writer_active = FALSE]
    BY <1>5, Zenon DEF WriteIdle
  <2>2. /\ SameQueues(att, att') /\ att'.fate = att.fate /\ att'.io = att.io
        /\ att'.writer = FALSE /\ att'.writer_active = FALSE
    BY <1>0, <2>1 DEF Att, SameQueues
  <2>3. Sound(att', {}, 0)
    BY <1>0, <2>2, SameSound
  <2>4. Watched(att') /\ Awake(att')
    BY <2>1, <2>2, Zenon DEF Watched, Awake, SameQueues, Sendable
  <2>5. OneSlot(att, att')
    BY <1>0, <2>2, <2>3, SlotsStay, Zenon DEF SameQueues, IndSlot
  <2> QED
    BY <1>1, <2>2, <2>3, <2>4, <2>5, HandlerStep
<1> QED
  BY <1>3, <1>4, <1>5 DEF Writing

\* The io is gone, and with it all there was
LEMMA EndStep ==
    ASSUME OpInv, TypeOK', Sound(att', {}, 0), Held(att') = {}, ev' = {},
           att'.pending_req = None, att'.pending_ind = None, att'.io # "open",
           ~att'.reader, ~att'.writer, ~att'.writer_active
    PROVE  OpStep
<1>1. att \in Att /\ att' \in Att
  BY DEF OpInv, TypeOK
<1>2. OneSlot(att, att')
  BY <1>1, SlotsFree, Zenon DEF IndSlot
<1> QED
  BY <1>2, Zenon DEF OpStep, Watched, Awake, Ended

\* timeout_cb shuts the io down
LEMMA TimeoutStep ==
    ASSUME OpInv, TypeOK', att.io = "open", Sound(att', {}, 0),
           SameWriter(att, att'), att'.io = att.io, OneSlot(att, att'),
           link' = "down"
    PROVE  OpStep
<1>1. Watched(att')
  BY Zenon DEF OpInv, Watched, SameWriter
<1> QED
  BY <1>1, HandlerStep

LEMMA OtherOps ==
    ASSUME OpInv, TypeOK',
           Disconnect \/ TimeoutReq \/ TimeoutInd \/ UserCall \/ Respond \/ Unref
    PROVE  OpStep
<1>0. /\ att \in Att /\ att' \in Att /\ Sound(att, {}, 0) /\ Ended
      /\ Wakes(att, att) /\ PendingStays(att, att)
  BY Zenon DEF OpInv, TypeOK, Wakes, PendingStays
<1>1. CASE Disconnect
  <2>1. PICK C \in SUBSET Cancellable(att) : att' = DisconnectedAtt(att, C)
    BY <1>0, <1>1, DisconnectLeaves
  <2>2. /\ Sound(att', {}, 0) /\ Held(att') = {}
        /\ att'.pending_req = None /\ att'.pending_ind = None
        /\ att'.io = "null"
        /\ ~att'.reader /\ ~att'.writer /\ ~att'.writer_active
    BY <1>0, <2>1, DisconnectedSound, Zenon
  <2>3. att'.io # "open" /\ ev' = {}
    BY <1>1, <2>2 DEF Disconnect
  <2> QED
    BY <2>2, <2>3, EndStep
<1>2. CASE TimeoutReq
  <2>1. /\ att.pending_req # None /\ att' = EndedReq(att) /\ link' = "down"
    BY <1>2, Zenon DEF TimeoutReq, EndedReq
  <2>2. att.io = "open"
    BY <1>0, <2>1, HeldOps, Zenon DEF Ended
  <2>3. /\ Sound(att', {}, 0) /\ SameLink(att, att') /\ SameWriter(att, att')
        /\ att'.pending_req = None /\ att'.pending_ind = att.pending_ind
        /\ \A p \in Held(att') : p.id # att.pending_req.id
    BY <1>0, <2>1, EndedReqSound
  <2>4. OneSlot(att, att')
    BY <1>0, <2>3, SlotsFree, Zenon DEF IndSlot
  <2> QED
    BY <2>1, <2>2, <2>3, <2>4, TimeoutStep DEF SameLink
<1>3. CASE TimeoutInd
  <2>1. /\ att.pending_ind # None /\ att' = EndedInd(att) /\ link' = "down"
    BY <1>3, Zenon DEF TimeoutInd, EndedInd
  <2>2. att.io = "open"
    BY <1>0, <2>1, HeldOps, Zenon DEF Ended
  <2>3. /\ Sound(att', {}, 0) /\ SameLink(att, att') /\ SameWriter(att, att')
        /\ att'.pending_ind = None /\ att'.pending_req = att.pending_req
    BY <1>0, <2>1, EndedIndSound
  <2>4. OneSlot(att, att')
    BY <1>0, <2>3, SlotsStay, Zenon DEF IndSlot
  <2> QED
    BY <2>1, <2>2, <2>3, <2>4, TimeoutStep DEF SameLink
<1>4. CASE UserCall
  <2>1. att.io = "open" /\ link' = link
        /\ (att' \in Reactions(att) \/ att' = CancelAll(att))
    BY <1>4, Zenon DEF UserCall, Reactions
  <2>2. CASE att' \in Reactions(att)
    BY <2>1, <2>2, ReactionStep
  <2>3. CASE att' = CancelAll(att)
    <3>1. /\ Sound(att', {}, 0) /\ SameWriter(att, att')
          /\ PendingStays(att, att')
          /\ att'.req_queue = << >> /\ att'.ind_queue = << >>
          /\ att'.write_queue = << >> /\ att'.io = att.io
      BY <1>0, <2>3, CancelAllSound, CancelAllFrame DEF SameLink
    <3>2. Wakes(att, att')
      <4>1. Sendable(att') => Sendable(att)
        BY <3>1, Zenon DEF Sendable
      <4> QED
        BY <3>1, <4>1, SleepsOn
    <3>3. OneSlot(att, att')
      BY <1>0, <3>1, SlotsStay, Zenon DEF PendingStays, IndSlot
    <3> QED
      BY <2>1, <3>1, <3>2, <3>3, WakingStep
  <2> QED
    BY <2>1, <2>2, <2>3
<1>5. CASE Respond
  <2>1. PICK r \in att.working :
            att' = Send([att EXCEPT !.working = @ \ {r}], "RSP", r)
    BY <1>5, Zenon DEF Respond
  <2> DEFINE w == att.working \ {r}
             b == [att EXCEPT !.working = w]
  <2>2. r \in Requests /\ w \in SUBSET Requests
    BY <1>0, <2>1 DEF Att
  <2>3. att' = Send(b, "RSP", r) /\ link' = link /\ ev' = ev
    BY <1>5, <2>1, Zenon DEF Respond
  <2> HIDE DEF w
  <2>4. b \in Att
    BY <1>0, <2>2, Zenon DEF Att
  <2>5. /\ SameQueues(att, b) /\ SameWriter(att, b) /\ b.io = att.io
        /\ b.fate = att.fate /\ b.reader = att.reader
    BY <1>0 DEF Att, SameQueues, SameWriter
  <2> HIDE DEF b
  <2>6. Held(b) = Held(att) /\ Sound(b, {}, 0)
    BY <1>0, <2>5, SameSound
  <2>7. CASE att.io = "open"
    <3>1. Wakes(att, b) /\ PendingStays(att, b)
      <4>1. Sendable(b) => Sendable(att)
        BY <2>5, Zenon DEF SameQueues, Sendable
      <4> QED
        BY <2>5, <4>1, SleepsOn, Zenon DEF PendingStays, SameQueues
    <3> QED
      BY <2>2, <2>3, <2>4, <2>6, <2>7, <3>1, SendStep
  <2>8. CASE att.io # "open"
    <3>1. att' = b
      BY <2>3, <2>5, <2>8, Zenon DEF Send
    <3>2. /\ Held(att') = {} /\ ev' = {} /\ ~att'.reader /\ ~att'.writer
          /\ ~att'.writer_active /\ att'.io # "open"
      BY <1>0, <2>3, <2>5, <2>6, <2>8, <3>1, Zenon
      DEF Ended, SameWriter, OpInv, Watched
    <3>3. att'.pending_req = None /\ att'.pending_ind = None
      BY <1>0, <3>2, HeldOps, Zenon
    <3> QED
      BY <2>6, <3>1, <3>2, <3>3, EndStep
  <2> QED
    BY <2>7, <2>8
<1>6. CASE Unref
  <2>1. att' = FreedAtt(att) /\ ev' = {}
    BY <1>6, Zenon DEF Unref, Idle, FreedAtt
  <2>2. /\ Sound(att', {}, 0) /\ Held(att') = {}
        /\ att'.pending_req = None /\ att'.pending_ind = None
        /\ att'.io = "freed"
        /\ ~att'.reader /\ ~att'.writer /\ ~att'.writer_active
    BY <1>0, <2>1, FreedSound, Zenon
  <2>3. att'.io # "open"
    BY <2>2
  <2> QED
    BY <2>1, <2>2, <2>3, EndStep
<1> QED
  BY <1>1, <1>2, <1>3, <1>4, <1>5, <1>6

LEMMA EnvironmentOps ==
    ASSUME OpInv, TypeOK',
           (\E writable \in BOOLEAN : Poll(writable)) \/ PeerSend \/ PeerLeave
               \/ UNCHANGED vars
    PROVE  OpStep
<1>1. /\ att' = att /\ att \in Att /\ Sound(att, {}, 0) /\ Watched(att)
      /\ link = "up" => Awake(att)
  BY Zenon DEF Poll, PeerSend, PeerLeave, vars, OpInv, TypeOK
<1>2. link' = "up" => link = "up"
  BY DEF Poll, PeerSend, PeerLeave, vars
<1>3. att.io # "open" => ev' = ev
  BY Zenon DEF Poll, PeerSend, PeerLeave, vars
<1>4. Ended'
  BY <1>1, <1>3, Zenon DEF OpInv, Ended
<1>5. OneSlot(att, att)
  BY <1>1, SlotsStay, Zenon DEF IndSlot
<1> QED
  BY <1>1, <1>2, <1>4, <1>5, Zenon DEF OpStep

LEMMA OpInvNext ==
    ASSUME OpInv, [Next]_vars
    PROVE  OpInv' /\ OpStep
<1>1. TypeOK'
  BY NextType DEF OpInv
<1>2. OpStep
  BY <1>1, ReadingOps, WritingOps, OtherOps, EnvironmentOps DEF Next
<1> QED
  BY <1>1, <1>2, Zenon DEF OpInv, OpStep

LEMMA OpInvInit == Init => OpInv
<1> SUFFICES ASSUME Init PROVE OpInv
  OBVIOUS
<1>1. TypeOK
  BY InitType
<1>2. /\ att.req_queue = << >> /\ att.ind_queue = << >>
      /\ att.write_queue = << >>
      /\ att.pending_req = None /\ att.pending_ind = None
      /\ att.next_send_id = 1 /\ att.fate = [i \in Ids |-> "unused"]
      /\ att.io = "open"
      /\ att.writer = FALSE /\ att.writer_active = FALSE
  BY DEF Init
<1>3. Ordered(att) /\ Held(att) = {}
  BY <1>2, EmptyQueue, Zenon DEF Ordered, Held, Queued, Pending
<1>4. Tracked(att, {}, 0)
  BY <1>2, <1>3, SMT DEF Tracked, Ids
<1>5. Watched(att) /\ Awake(att)
  BY <1>2, Zenon DEF Watched, Awake, Sendable
<1> QED
  BY <1>1, <1>2, <1>3, <1>4, <1>5, Zenon DEF OpInv, Sound, Ended

LEMMA OpInvAlways == Spec => []OpInv
<1>1. OpInv /\ [Next]_vars => OpInv'
  BY OpInvNext
<1> QED
  BY <1>1, OpInvInit, PTL DEF Spec

-----------------------------------------------------------------------------
(* Whatever mix of answer, cancellation, timeout, write failure,           *)
(* disconnection and release ends an op, its destroy hook runs once and its *)
(* callback never after it (destroy_att_send_op, cancel_att_send_op and    *)
(* disc_att_send_op), also when a callback sends or cancels other ops.     *)
THEOREM HooksAlwaysRunOnce == Spec => []HooksRunOnce
<1>1. OpInv => HooksRunOnce
  <2> SUFFICES ASSUME OpInv PROVE HooksRunOnce
    OBVIOUS
  <2>1. Tracked(att, {}, 0) /\ Held(att) \cup {} = Held(att)
    BY Zenon DEF OpInv, Sound
  <2> QED
    BY <2>1, SMT DEF Tracked, HooksRunOnce, Ids
<1> QED
  BY <1>1, OpInvAlways, PTL

(* The queues keep the order of bt_att_send, and a request handle_error_rsp *)
(* puts back does not fall behind the younger ones.                        *)
THEOREM QueuesKeepOrder == Spec => []SendOrder
<1>1. OpInv => SendOrder
  BY Zenon DEF OpInv, Sound, Ordered, SendOrder
<1> QED
  BY <1>1, OpInvAlways, PTL

(* While the link is up no op waits without a write handler: every function *)
(* that queues an op or frees a slot calls wakeup_writer after it.         *)
THEOREM WriterNeverSleeps == Spec => []NoLostWakeup
<1>1. OpInv => NoLostWakeup
  BY Zenon DEF OpInv, Watched, Awake, NoLostWakeup
<1> QED
  BY <1>1, OpInvAlways, PTL

(* Once disconnect_cb or bt_att_free ran no op is left whose hooks could be *)
(* called, and the io has no handler.                                      *)
THEOREM DisconnectionEndsAll == Spec => []NothingAfterDisconnect
<1>1. OpInv => NothingAfterDisconnect
  BY Zenon DEF OpInv, Ended, NothingAfterDisconnect
<1> QED
  BY <1>1, OpInvAlways, PTL

(* One request and one indication are on the air at a time                 *)
(* (pick_next_send_op), and a request goes back to its queue only when     *)
(* change_security raised the level.                                       *)
THEOREM SlotsHoldOne == Spec => OneOutstanding
<1>1. OpInv /\ [Next]_vars =>
          [/\ att'.pending_req # None /\ att'.pending_req # att.pending_req
                  /\ att.pending_req # None
              => att'.pending_req = Stripped(att.pending_req)
           /\ att'.pending_ind # None /\ att'.pending_ind # att.pending_ind
                  /\ att.pending_ind # None
              => att'.pending_ind = Stripped(att.pending_ind)
           /\ att.pending_req \in ToSet(att'.req_queue) => att'.sec > att.sec]_vars
  BY OpInvNext, Zenon DEF OpStep, OneSlot
<1> QED
  BY <1>1, OpInvAlways, PTL DEF Spec, OneOutstanding

-----------------------------------------------------------------------------
(* The answers that are queued *)

AnswerOps(a) == {op \in ToSet(a.write_queue) : op.answers # 0}

\* What an answer is, what may be at work, and what is owed: n requests were
\* taken so far
Owing(a, n) ==
    a.io = "open" =>
        /\ \A op \in AnswerOps(a) : /\ op.type = "RSP" /\ op.answers <= n
                                    /\ op.answers \notin a.working
        /\ \A p, q \in AnswerOps(a) : p.answers = q.answers => p = q
        /\ \A r \in a.working \cup a.owed : r <= n
        /\ ~a.lost =>
               \A r \in Requests :
                   r \in a.owed <=> \/ r \in a.working
                                    \/ \E op \in AnswerOps(a) : op.answers = r

\* An id is left for each handler at work and for the k PDUs still to come
Room(a, k) == a.next_send_id + Cardinality(a.working) + k <= MaxOps + 1

SameAnswers(a, b) ==
    /\ b.io = a.io
    /\ b.working = a.working
    /\ b.owed = a.owed
    /\ b.lost = a.lost
    /\ AnswerOps(b) = AnswerOps(a)

LEMMA SameOwing ==
    ASSUME NEW a \in Att, NEW b, SameAnswers(a, b), NEW n \in Int, NEW m \in Int,
           n <= m, Owing(a, n)
    PROVE  Owing(b, m)
<1>1. /\ AnswerOps(b) = AnswerOps(a) /\ b.working = a.working
      /\ b.owed = a.owed /\ b.lost = a.lost /\ b.io = a.io
  BY Zenon DEF SameAnswers
<1>2. CASE a.io # "open"
  BY <1>1, <1>2, Zenon DEF Owing
<1>3. CASE a.io = "open"
  <2>1. \A op \in AnswerOps(a) : op.answers \in Int /\ op.answers <= n
    <3>1. AnswerOps(a) \subseteq Op
      BY HeldOps, OpSets, Zenon DEF AnswerOps
    <3>2. \A op \in Op : op.answers \in Int
      BY BoundsAssumption DEF Op, OpOf, Requests
    <3> QED
      BY <1>3, <3>1, <3>2, Zenon DEF Owing
  <2>2. \A r \in a.working \cup a.owed : r \in Int /\ r <= n
    <3>1. a.working \cup a.owed \subseteq Int
      BY DEF Att, Requests
    <3> QED
      BY <1>3, <3>1, Zenon DEF Owing
  <2>3. /\ \A op \in AnswerOps(b) : op.answers <= m
        /\ \A r \in b.working \cup b.owed : r <= m
    BY <1>1, <2>1, <2>2
  <2> QED
    BY <1>1, <1>3, <2>3, Zenon DEF Owing
<1> QED
  BY <1>2, <1>3

LEMMA SameAnswersOn ==
    ASSUME NEW a, NEW b, NEW c, SameAnswers(a, b), SameAnswers(b, c)
    PROVE  SameAnswers(a, c)
BY Zenon DEF SameAnswers

LEMMA FrameAnswers ==
    ASSUME NEW a, NEW b, SameLink(a, b), b.lost = a.lost,
           ToSet(b.write_queue) = ToSet(a.write_queue)
    PROVE  SameAnswers(a, b)
BY Zenon DEF SameLink, SameAnswers, AnswerOps

LEMMA WorkingFinite ==
    ASSUME NEW a \in Att
    PROVE  IsFiniteSet(a.working) /\ Cardinality(a.working) \in Nat
<1>1. a.working \in SUBSET (1 .. MaxRx) /\ MaxRx \in Int
  BY BoundsAssumption DEF Att, Requests
<1>2. IsFiniteSet(a.working)
  <2>1. 1 \in Int /\ MaxRx \in Int
    BY <1>1
  <2>2. IsFiniteSet(1 .. MaxRx)
    BY <2>1, FS_Interval
  <2> QED
    BY <1>1, <2>2, FS_Subset
<1> QED
  BY <1>2, FS_CardinalityType

\* What a call of bt_att_send adds
LEMMA SendAnswers ==
    ASSUME NEW a \in Att, NEW X, NEW c, Sound(a, X, c),
           NEW type \in OpType, NEW r \in Requests \cup {0},
           a.io = "open", a.next_send_id \in Ids
    PROVE  LET b == Send(a, type, r)
               op == SentOp(a, type, r)
           IN  /\ b.io = a.io /\ b.working = a.working /\ b.owed = a.owed
               /\ b.lost = a.lost /\ b.next_send_id = a.next_send_id + 1
               /\ AnswerOps(b) = IF type \in Elicits \/ r = 0 THEN AnswerOps(a)
                                 ELSE AnswerOps(a) \cup {op}
<1> DEFINE b == Send(a, type, r)
           op == SentOp(a, type, r)
<1>1. /\ SameLink(a, b) /\ b.lost = a.lost
      /\ b.next_send_id = a.next_send_id + 1
      /\ b.write_queue = IF type \in Elicits THEN a.write_queue
                         ELSE Append(a.write_queue, op)
  BY SendFrame
<1> HIDE DEF b
<1>2. CASE type \in Elicits
  <2>1. AnswerOps(b) = AnswerOps(a)
    BY <1>1, <1>2, Zenon DEF AnswerOps
  <2> QED
    BY <1>1, <1>2, <2>1, Zenon DEF SameLink, b
<1>3. CASE type \notin Elicits
  <2>1. /\ op \in Op /\ op.type = type /\ op.answers = r
        /\ op.id = a.next_send_id
    BY DEF Op, OpOf, SentOp
  <2>2. /\ op \in WriteOp /\ a.write_queue \in Seq(WriteOp)
        /\ WriteOp \subseteq Op /\ ToSet(a.write_queue) \subseteq Held(a)
    BY <1>3, <2>1, OpSets, Zenon DEF Att, Held, Queued
  <2> HIDE DEF op
  <2>3. Increasing(a.write_queue) /\ \A p \in ToSet(a.write_queue) : p.id < op.id
    <3>1. \A p \in Held(a) : p.id < a.next_send_id
      BY Zenon DEF Sound, Tracked
    <3> QED
      BY <2>1, <2>2, <3>1, Zenon DEF Sound, Ordered
  <2>4. ToSet(b.write_queue) = ToSet(a.write_queue) \cup {op}
    BY <1>1, <1>3, <2>2, <2>3, AppendQueue
  <2>5. AnswerOps(b) = IF r = 0 THEN AnswerOps(a) ELSE AnswerOps(a) \cup {op}
    BY <2>1, <2>4 DEF AnswerOps
  <2> QED
    BY <1>1, <1>3, <2>5, Zenon DEF SameLink, b, op
<1> QED
  BY <1>2, <1>3

\* The end of a function that takes an op out of its queue
LEMMA DestroyAnswers ==
    ASSUME NEW a, NEW b \in Att, NEW op \in Op, SameAnswers(a, b)
    PROVE  /\ SameAnswers(a, Destroy(b, op))
           /\ Destroy(b, op).next_send_id = b.next_send_id
           /\ SameAnswers(a, WakeupWriter(Destroy(b, op)))
           /\ WakeupWriter(Destroy(b, op)).next_send_id = b.next_send_id
<1> DEFINE d == Destroy(b, op)
           e == WakeupWriter(d)
<1>1. d \in Att /\ SameLink(b, d) /\ SameQueues(b, d)
  BY DestroyView
<1>2. SameLink(d, e) /\ SameQueues(d, e)
  BY <1>1, WakeupWriterFrame
<1> HIDE DEF d, e
<1>3. SameAnswers(b, d) /\ SameAnswers(d, e)
  BY <1>1, <1>2, FrameAnswers, Zenon DEF SameQueues
<1>4. SameAnswers(a, d) /\ SameAnswers(a, e)
  BY <1>3, SameAnswersOn
<1> QED
  BY <1>1, <1>2, <1>4, Zenon DEF SameQueues, d, e

\* bt_att_cancel drops no answer
LEMMA CancelledAnswers ==
    ASSUME NEW a \in Att, NEW X, NEW c, Sound(a, X, c),
           NEW b \in Cancelled(a), \A op \in AnswerOps(a) : op.type = "RSP"
    PROVE  SameAnswers(a, b) /\ b.next_send_id = a.next_send_id
<1>0. /\ a.req_queue \in Seq(ReqOp) /\ a.ind_queue \in Seq(IndOp)
      /\ a.write_queue \in Seq(WriteOp) /\ WriteOp \subseteq Op
      /\ Increasing(a.write_queue) /\ SameAnswers(a, a)
  BY OpSets, Zenon DEF Att, Sound, Ordered, SameAnswers
<1>1. CASE a.pending_req # None /\ b = CancelPendingReq(a)
  <2> DEFINE d == Destroy(a, a.pending_req)
  <2>1. /\ d \in Att /\ SameAnswers(a, d) /\ d.next_send_id = a.next_send_id
    BY <1>0, <1>1, HeldOps, DestroyAnswers, DestroyView
  <2>2. /\ SameLink(d, b) /\ b.lost = d.lost /\ b.write_queue = d.write_queue
        /\ b.next_send_id = d.next_send_id
    BY <1>1, <2>1 DEF CancelPendingReq, Att, SameLink
  <2> HIDE DEF d
  <2> QED
    BY <2>1, <2>2, FrameAnswers, SameAnswersOn
<1>2. CASE a.pending_ind # None /\ b = CancelPendingInd(a)
  <2> DEFINE d == Destroy(a, a.pending_ind)
  <2>1. /\ d \in Att /\ SameAnswers(a, d) /\ d.next_send_id = a.next_send_id
    BY <1>0, <1>2, HeldOps, DestroyAnswers, DestroyView
  <2>2. /\ SameLink(d, b) /\ b.lost = d.lost /\ b.write_queue = d.write_queue
        /\ b.next_send_id = d.next_send_id
    BY <1>2, <2>1 DEF CancelPendingInd, Att, SameLink
  <2> HIDE DEF d
  <2> QED
    BY <2>1, <2>2, FrameAnswers, SameAnswersOn
<1>3. ASSUME NEW k \in DOMAIN a.req_queue, b = CancelReq(a, k)
      PROVE  SameAnswers(a, b) /\ b.next_send_id = a.next_send_id
  <2> DEFINE d == [a EXCEPT !.req_queue = RemoveAt(@, k)]
  <2>1. RemoveAt(a.req_queue, k) \in Seq(ReqOp) /\ a.req_queue[k] \in Op
    BY <1>0, RemoveAtType, OpSets, ElementOfSeq, LenProperties
  <2>2. d \in Att
    BY <2>1, Zenon DEF Att
  <2>3. /\ SameLink(a, d) /\ d.lost = a.lost /\ d.write_queue = a.write_queue
        /\ d.next_send_id = a.next_send_id
    BY DEF Att, SameLink
  <2>4. b = WakeupWriter(Destroy(d, a.req_queue[k]))
    BY <1>3, Zenon DEF CancelReq
  <2> HIDE DEF d
  <2> QED
    BY <2>1, <2>2, <2>3, <2>4, FrameAnswers, DestroyAnswers
<1>4. ASSUME NEW k \in DOMAIN a.ind_queue, b = CancelInd(a, k)
      PROVE  SameAnswers(a, b) /\ b.next_send_id = a.next_send_id
  <2> DEFINE d == [a EXCEPT !.ind_queue = RemoveAt(@, k)]
  <2>1. RemoveAt(a.ind_queue, k) \in Seq(IndOp) /\ a.ind_queue[k] \in Op
    BY <1>0, RemoveAtType, OpSets, ElementOfSeq, LenProperties
  <2>2. d \in Att
    BY <2>1, Zenon DEF Att
  <2>3. /\ SameLink(a, d) /\ d.lost = a.lost /\ d.write_queue = a.write_queue
        /\ d.next_send_id = a.next_send_id
    BY DEF Att, SameLink
  <2>4. b = WakeupWriter(Destroy(d, a.ind_queue[k]))
    BY <1>4, Zenon DEF CancelInd
  <2> HIDE DEF d
  <2> QED
    BY <2>1, <2>2, <2>3, <2>4, FrameAnswers, DestroyAnswers
<1>5. ASSUME NEW k \in DOMAIN a.write_queue, a.write_queue[k].type # "RSP",
             b = CancelWrite(a, k)
      PROVE  SameAnswers(a, b) /\ b.next_send_id = a.next_send_id
  <2> DEFINE d == [a EXCEPT !.write_queue = RemoveAt(@, k)]
             op == a.write_queue[k]
  <2>1. /\ RemoveAt(a.write_queue, k) \in Seq(WriteOp) /\ op \in ToSet(a.write_queue)
        /\ ToSet(RemoveAt(a.write_queue, k)) = ToSet(a.write_queue) \ {op}
    BY <1>0, RemoveQueue
  <2>2. d \in Att /\ op \in Op
    BY <1>0, <2>1, HeldOps, Zenon DEF Att
  <2>3. /\ SameLink(a, d) /\ d.lost = a.lost
        /\ d.write_queue = RemoveAt(a.write_queue, k)
        /\ d.next_send_id = a.next_send_id
    BY DEF Att, SameLink
  <2>4. b = WakeupWriter(Destroy(d, op))
    BY <1>5, Zenon DEF CancelWrite
  <2>5. op.type # "RSP"
    BY <1>5
  <2> HIDE DEF d, op
  <2>6. op \notin AnswerOps(a)
    BY <2>5, Zenon
  <2>7. AnswerOps(d) = AnswerOps(a)
    BY <2>1, <2>3, <2>6, Zenon DEF AnswerOps
  <2>8. SameAnswers(a, d)
    BY <2>3, <2>7, Zenon DEF SameAnswers, SameLink
  <2> QED
    BY <2>2, <2>3, <2>4, <2>8, DestroyAnswers
<1> QED
  BY <1>1, <1>2, <1>3, <1>4, <1>5 DEF Cancelled

\* A callback neither gives nor drops an answer, and leaves the ids reserved
LEMMA ReactionsAnswers ==
    ASSUME NEW a \in Att, NEW X, NEW c, Sound(a, X, c), NEW b \in Reactions(a),
           \A op \in AnswerOps(a) : op.type = "RSP",
           rx \in Seq(Pdu), peerTx \in Nat
    PROVE  /\ SameAnswers(a, b)
           /\ Room(a, MaxRx - peerTx + Len(rx)) =>
                  Room(b, MaxRx - peerTx + Len(rx))
<1> DEFINE k == MaxRx - peerTx + Len(rx)
<1>1. Cardinality(a.working) \in Nat /\ MaxOps \in Nat /\ MaxRx \in Nat
      /\ Len(rx) \in Nat /\ peerTx \in Nat
      /\ a.next_send_id \in Nat
  <2>1. MaxOps \in Nat /\ MaxRx \in Nat /\ Len(rx) \in Nat
    BY LenProperties, BoundsAssumption
  <2>2. a.next_send_id \in 1 .. MaxOps + 1
    BY Zenon DEF Att
  <2> QED
    BY <2>1, <2>2, WorkingFinite
<1>2. CASE b \in Submitted(a)
  <2>1. PICK t \in UserOps : b = Send(a, t, 0) /\ a.next_send_id + Reserved(a) <= MaxOps
    BY <1>2 DEF Submitted
  <2>2. t \in OpType
    BY UserAssumption
  <2>3. CASE a.io = "open" /\ a.next_send_id \in Ids
    <3>1. SameAnswers(a, b) /\ b.next_send_id = a.next_send_id + 1
      BY <2>1, <2>2, <2>3, SendAnswers, Zenon DEF SameAnswers
    <3>2. Cardinality(b.working) = Cardinality(a.working)
      BY <3>1, Zenon DEF SameAnswers
    <3>3. a.next_send_id + (Cardinality(a.working) + (MaxRx - peerTx) + Len(rx))
              <= MaxOps
      BY <2>1 DEF Reserved
    <3>4. Room(b, k)
      BY <1>1, <3>1, <3>2, <3>3, SMT DEF Room
    <3> QED
      BY <3>1, <3>4
  <2>4. CASE ~(a.io = "open" /\ a.next_send_id \in Ids)
    BY <2>1, <2>4, Zenon DEF Send, SameAnswers
  <2> QED
    BY <2>3, <2>4
<1>3. CASE b \in Cancelled(a)
  BY <1>3, CancelledAnswers, Zenon DEF SameAnswers, Room
<1>4. CASE b = a
  BY <1>4, Zenon DEF SameAnswers
<1> QED
  BY <1>2, <1>3, <1>4 DEF Reactions

LEMMA AfterCallAnswers ==
    ASSUME NEW a \in Att, NEW X, NEW op \in Held(a) \cup X, op \in Op,
           Sound(a, X, 0), NEW b \in AfterCall(a, op),
           \A p \in AnswerOps(a) : p.type = "RSP",
           rx \in Seq(Pdu), peerTx \in Nat
    PROVE  /\ SameAnswers(a, b)
           /\ Room(a, MaxRx - peerTx + Len(rx)) =>
                  Room(b, MaxRx - peerTx + Len(rx))
<1>1. CASE op.hooked
  <2> DEFINE e == Callback(a, op)
  <2>1. /\ e \in Att /\ Sound(e, X, op.id) /\ SameQueues(a, e)
        /\ SameLink(a, e)
    BY CallbackSound, CallbackFrame
  <2>2. b \in Reactions(e)
    BY <1>1, Zenon DEF AfterCall
  <2> HIDE DEF e
  <2>3. SameAnswers(a, e) /\ e.next_send_id = a.next_send_id
    BY <2>1, FrameAnswers, Zenon DEF SameQueues
  <2>4. /\ SameAnswers(e, b)
        /\ Room(e, MaxRx - peerTx + Len(rx)) =>
               Room(b, MaxRx - peerTx + Len(rx))
    <3>1. \A p \in AnswerOps(e) : p.type = "RSP"
      BY <2>3, Zenon DEF SameAnswers
    <3> QED
      BY <2>1, <2>2, <3>1, ReactionsAnswers
  <2> QED
    BY <2>3, <2>4, SameAnswersOn, Zenon DEF Room, SameAnswers
<1>2. CASE ~op.hooked
  BY <1>2, Zenon DEF AfterCall, SameAnswers
<1> QED
  BY <1>1, <1>2

Taken == peerTx - Len(rx)
ToCome == MaxRx - peerTx + Len(rx)

\* What brings the answers owed, and the ids kept for those still to come: an
\* answer bt_att_send refused would be owed for ever
AnswerInv == OpInv /\ Owing(att, Taken) /\ Room(att, ToCome)

AnswerStep == Owing(att', Taken') /\ Room(att', ToCome')

LEMMA Counts ==
    ASSUME TypeOK
    PROVE  /\ Taken \in Int /\ ToCome \in Nat /\ MaxOps \in Nat
           /\ Cardinality(att.working) \in Nat /\ att.next_send_id \in Nat
           /\ att \in Att /\ rx \in Seq(Pdu) /\ peerTx \in Nat
<1>1. /\ rx \in Seq(Pdu) /\ peerTx \in Len(rx) .. MaxRx /\ att \in Att
      /\ MaxOps \in Nat /\ MaxRx \in Nat /\ Len(rx) \in Nat
  BY LenProperties, BoundsAssumption DEF TypeOK
<1>2. att.next_send_id \in 1 .. MaxOps + 1
  BY <1>1, Zenon DEF Att
<1>3. Taken \in Int /\ ToCome \in Nat /\ att.next_send_id \in Nat /\ peerTx \in Nat
  BY <1>1, <1>2 DEF Taken, ToCome
<1> QED
  BY <1>1, <1>3, WorkingFinite

LEMMA ReadCounts ==
    ASSUME TypeOK, NEW pdus, Read(pdus)
    PROVE  /\ Taken' = Taken + 1 /\ ToCome' = ToCome - 1
           /\ Taken + 1 \in Requests
<1>1. /\ rx \in Seq(Pdu) /\ rx # << >> /\ rx' = Tail(rx) /\ peerTx' = peerTx
      /\ peerTx \in Len(rx) .. MaxRx /\ MaxRx \in Nat
  BY BoundsAssumption DEF TypeOK, Read
<1>2. Len(rx') = Len(rx) - 1 /\ Len(rx) \in Nat \ {0}
  BY <1>1, HeadTailProperties, EmptySeq
<1> QED
  BY <1>1, <1>2 DEF Taken, ToCome, Requests

LEMMA QuietCounts ==
    ASSUME TypeOK, UNCHANGED <<rx, peerTx>>
    PROVE  Taken' = Taken /\ ToCome' = ToCome
BY DEF Taken, ToCome

\* A step that neither takes a request nor brings an answer
LEMMA SameAnswersStep ==
    ASSUME AnswerInv, TypeOK', SameAnswers(att, att'), Room(att', ToCome),
           \/ Taken' = Taken /\ ToCome' = ToCome
           \/ Taken' = Taken + 1 /\ ToCome' = ToCome - 1
    PROVE  AnswerStep
<1>0. TypeOK
  BY DEF AnswerInv, OpInv
<1>1. /\ Taken \in Int /\ Taken' \in Int /\ Taken <= Taken' /\ att \in Att
      /\ ToCome \in Nat /\ ToCome' \in Int /\ ToCome' <= ToCome
  BY <1>0, Counts
<1>2. Owing(att', Taken')
  BY <1>1, SameOwing DEF AnswerInv
<1>3. Cardinality(att'.working) = Cardinality(att.working)
  BY Zenon DEF SameAnswers
<1>4. Room(att', ToCome')
  <2>1. att'.next_send_id \in Int /\ Cardinality(att'.working) \in Int
    <3>1. att'.next_send_id \in 1 .. MaxOps + 1
      BY Zenon DEF TypeOK, Att
    <3> QED
      BY <1>0, <1>3, <3>1, Counts
  <2> HIDE DEF ToCome
  <2> QED
    BY <1>0, <1>1, <2>1, Counts DEF Room
<1> QED
  BY <1>2, <1>4 DEF AnswerStep

\* Owing of a bearer, but for the request r: nothing brings its answer
OwingBut(a, n, r) ==
    /\ \A op \in AnswerOps(a) : /\ op.type = "RSP" /\ op.answers <= n
                                /\ op.answers \notin a.working
                                /\ op.answers # r
    /\ \A p, q \in AnswerOps(a) : p.answers = q.answers => p = q
    /\ \A s \in a.working \cup a.owed : s <= n
    /\ r \notin a.working /\ r <= n
    /\ ~a.lost => r \in a.owed
    /\ ~a.lost =>
           \A s \in Requests \ {r} :
               s \in a.owed <=> \/ s \in a.working
                                \/ \E op \in AnswerOps(a) : op.answers = s

\* The handler answers, or will
LEMMA AnswerGiven ==
    ASSUME NEW a \in Att, Sound(a, {}, 0), NEW r \in Requests, NEW n,
           OwingBut(a, n, r), a.io = "open", a.next_send_id \in Ids
    PROVE  LET b == Send(a, "RSP", r)
           IN  /\ Owing(b, n) /\ b.working = a.working
               /\ b.next_send_id = a.next_send_id + 1
<1> DEFINE b == Send(a, "RSP", r)
           op == SentOp(a, "RSP", r)
<1>1. /\ b.io = a.io /\ b.working = a.working /\ b.owed = a.owed
      /\ b.lost = a.lost /\ b.next_send_id = a.next_send_id + 1
      /\ AnswerOps(b) = AnswerOps(a) \cup {op}
  <2>1. "RSP" \in OpType /\ "RSP" \notin Elicits
    BY DEF OpType, Elicits
  <2>2. r # 0
    BY DEF Requests
  <2> QED
    BY <2>1, <2>2, SendAnswers
<1>2. op.type = "RSP" /\ op.answers = r
  BY DEF SentOp
<1> HIDE DEF b, op
<1>3. /\ \A p \in AnswerOps(b) : p.type = "RSP" /\ p.answers <= n
                                 /\ p.answers \notin b.working
      /\ \A p, q \in AnswerOps(b) : p.answers = q.answers => p = q
  BY <1>1, <1>2, Zenon DEF OwingBut
<1>4. ASSUME ~b.lost, NEW s \in Requests
      PROVE  s \in b.owed <=> \/ s \in b.working
                              \/ \E p \in AnswerOps(b) : p.answers = s
  BY <1>1, <1>2, <1>4, Zenon DEF OwingBut
<1>5. \A s \in b.working \cup b.owed : s <= n
  BY <1>1, Zenon DEF OwingBut
<1> QED
  BY <1>1, <1>3, <1>4, <1>5, Zenon DEF Owing, b

LEMMA AnswerDeferred ==
    ASSUME NEW a \in Att, NEW r \in Requests, NEW n, OwingBut(a, n, r)
    PROVE  LET b == [a EXCEPT !.working = @ \cup {r}]
           IN  /\ Owing(b, n) /\ b.next_send_id = a.next_send_id
               /\ b.working = a.working \cup {r}
<1> DEFINE b == [a EXCEPT !.working = @ \cup {r}]
<1>1. /\ b.io = a.io /\ b.working = a.working \cup {r} /\ b.owed = a.owed
      /\ b.lost = a.lost /\ b.next_send_id = a.next_send_id
      /\ b.write_queue = a.write_queue
  BY DEF Att
<1> HIDE DEF b
<1>2. AnswerOps(b) = AnswerOps(a)
  BY <1>1, Zenon DEF AnswerOps
<1>3. /\ \A p \in AnswerOps(b) : p.type = "RSP" /\ p.answers <= n
                                 /\ p.answers \notin b.working
      /\ \A p, q \in AnswerOps(b) : p.answers = q.answers => p = q
  BY <1>1, <1>2, Zenon DEF OwingBut
<1>4. ASSUME ~b.lost, NEW s \in Requests
      PROVE  s \in b.owed <=> \/ s \in b.working
                              \/ \E p \in AnswerOps(b) : p.answers = s
  BY <1>1, <1>2, <1>4, Zenon DEF OwingBut
<1>5. \A s \in b.working \cup b.owed : s <= n
  BY <1>1, Zenon DEF OwingBut
<1> QED
  BY <1>1, <1>3, <1>4, <1>5, Zenon DEF Owing, b

LEMMA SameOwingBut ==
    ASSUME NEW a, NEW b, SameAnswers(a, b), NEW n, NEW r, OwingBut(a, n, r)
    PROVE  OwingBut(b, n, r)
BY Zenon DEF SameAnswers, OwingBut

\* A request is taken, or its handler is about to answer
LEMMA RequestTaken ==
    ASSUME NEW a \in Att, NEW n \in Int, Owing(a, n), a.io = "open"
    PROVE  OwingBut(TakeRequest(a, n + 1), n + 1, n + 1)
<1> DEFINE r == n + 1
           b == TakeRequest(a, r)
<1>1. /\ b.io = a.io /\ b.working = a.working /\ b.owed = a.owed \cup {r}
      /\ b.lost = a.lost /\ b.write_queue = a.write_queue
  BY DEF TakeRequest, Att
<1> HIDE DEF b
<1>2. AnswerOps(b) = AnswerOps(a)
  BY <1>1, Zenon DEF AnswerOps
<1>3. \A op \in AnswerOps(a) : op.answers \in Int /\ op.answers <= n
  <2>1. AnswerOps(a) \subseteq Op
    BY HeldOps, OpSets, Zenon DEF AnswerOps
  <2>2. \A op \in Op : op.answers \in Int
    BY BoundsAssumption DEF Op, OpOf, Requests
  <2> QED
    BY <2>1, <2>2, Zenon DEF Owing
<1>4. \A s \in a.working \cup a.owed : s \in Int /\ s <= n
  <2>1. a.working \cup a.owed \subseteq Int
    BY DEF Att, Requests
  <2> QED
    BY <2>1, Zenon DEF Owing
<1>5. /\ \A op \in AnswerOps(a) : op.answers <= r /\ op.answers # r
      /\ \A s \in a.working \cup a.owed : s <= r /\ s # r
      /\ r <= r
  BY <1>3, <1>4
<1> HIDE DEF r
<1>6. /\ \A op \in AnswerOps(b) : /\ op.type = "RSP" /\ op.answers <= r
                                  /\ op.answers \notin b.working
                                  /\ op.answers # r
      /\ \A p, q \in AnswerOps(b) : p.answers = q.answers => p = q
  BY <1>1, <1>2, <1>5, Zenon DEF Owing
<1>7. \A s \in b.working \cup b.owed : s <= r
  BY <1>1, <1>5, Zenon
<1>8. r \notin b.working /\ r \in b.owed
  BY <1>1, <1>5, Zenon
<1>9. ASSUME ~b.lost, NEW s \in Requests \ {r}
      PROVE  s \in b.owed <=> \/ s \in b.working
                              \/ \E op \in AnswerOps(b) : op.answers = s
  BY <1>1, <1>2, <1>9, Zenon DEF Owing
<1> QED
  BY <1>5, <1>6, <1>7, <1>8, <1>9, Zenon DEF OwingBut, b, r

LEMMA WorkDone ==
    ASSUME NEW a \in Att, NEW n, Owing(a, n), a.io = "open", NEW r \in a.working,
           NEW b, b.io = a.io, b.working = a.working \ {r}, b.owed = a.owed,
           b.lost = a.lost, b.write_queue = a.write_queue
    PROVE  OwingBut(b, n, r)
<1>1. AnswerOps(b) = AnswerOps(a) /\ r \in Requests
  BY DEF AnswerOps, Att
<1>2. ASSUME NEW op \in AnswerOps(b)
      PROVE  /\ op.type = "RSP" /\ op.answers <= n
             /\ op.answers \notin b.working /\ op.answers # r
  <2>1. /\ op.type = "RSP" /\ op.answers <= n /\ op.answers \notin a.working
    BY <1>1, <1>2, Zenon DEF Owing
  <2> QED
    BY <2>1, Zenon
<1>3. \A p, q \in AnswerOps(b) : p.answers = q.answers => p = q
  BY <1>1, Zenon DEF Owing
<1>4. /\ \A s \in b.working \cup b.owed : s <= n
      /\ r \notin b.working /\ r <= n
  BY <1>1, Zenon DEF Owing
<1>5. ~b.lost => r \in b.owed
  BY <1>1, Zenon DEF Owing
<1>6. ASSUME ~b.lost, NEW s \in Requests \ {r}
      PROVE  s \in b.owed <=> \/ s \in b.working
                              \/ \E op \in AnswerOps(b) : op.answers = s
  BY <1>1, <1>6, Zenon DEF Owing
<1> QED
  BY <1>2, <1>3, <1>4, <1>5, <1>6, Zenon DEF OwingBut

\* The invariant gives what the lemmas on reactions ask for
LEMMA AnswerFacts ==
    ASSUME AnswerInv
    PROVE  /\ TypeOK /\ Sound(att, {}, 0) /\ att \in Att
           /\ Room(att, ToCome)
           /\ att.io = "open" =>
                  /\ \A op \in AnswerOps(att) : op.type = "RSP"
                  /\ Owing(att, Taken)
BY Zenon DEF AnswerInv, OpInv, TypeOK, Owing

LEMMA EndAnswers ==
    ASSUME NEW a \in Att, NEW X, NEW c, Sound(a, X, c)
    PROVE  /\ a.pending_req # None =>
                  /\ SameAnswers(a, EndedReq(a)) /\ SameAnswers(a, EndReq(a))
                  /\ EndedReq(a).next_send_id = a.next_send_id
                  /\ EndReq(a).next_send_id = a.next_send_id
           /\ a.pending_ind # None =>
                  /\ SameAnswers(a, EndedInd(a)) /\ SameAnswers(a, EndInd(a))
                  /\ EndedInd(a).next_send_id = a.next_send_id
                  /\ EndInd(a).next_send_id = a.next_send_id
<1>0. SameAnswers(a, a)
  BY Zenon DEF SameAnswers
<1>1. ASSUME NEW b, NEW e, SameAnswers(a, b), b.next_send_id = a.next_send_id,
             NEW d \in Att, SameAnswers(b, d), d.next_send_id = b.next_send_id,
             e = WakeupWriter(d)
      PROVE  /\ SameAnswers(a, d) /\ d.next_send_id = a.next_send_id
             /\ SameAnswers(a, e) /\ e.next_send_id = a.next_send_id
  <2>1. SameLink(d, e) /\ SameQueues(d, e)
    BY <1>1, WakeupWriterFrame
  <2>2. SameAnswers(d, e) /\ e.next_send_id = d.next_send_id
    BY <2>1, FrameAnswers, Zenon DEF SameQueues
  <2> QED
    BY <1>1, <2>2, SameAnswersOn
<1>2. ASSUME a.pending_req # None
      PROVE  /\ SameAnswers(a, EndedReq(a)) /\ SameAnswers(a, EndReq(a))
             /\ EndedReq(a).next_send_id = a.next_send_id
             /\ EndReq(a).next_send_id = a.next_send_id
  <2> DEFINE d == Destroy(a, a.pending_req)
             e == EndedReq(a)
  <2>1. /\ d \in Att /\ SameAnswers(a, d) /\ d.next_send_id = a.next_send_id
    BY <1>0, <1>2, HeldOps, DestroyAnswers, DestroyView
  <2>2. /\ SameLink(d, e) /\ e.lost = d.lost /\ e.write_queue = d.write_queue
        /\ e.next_send_id = d.next_send_id /\ e \in Att
    <3>1. e = [d EXCEPT !.pending_req = None]
      BY DEF EndedReq
    <3> HIDE DEF d
    <3>2. e \in Att
      BY <2>1, <3>1, Zenon DEF Att
    <3> QED
      BY <2>1, <3>1, <3>2 DEF Att, SameLink
  <2>3. EndReq(a) = WakeupWriter(e)
    BY DEF EndReq, EndedReq
  <2> HIDE DEF d, e
  <2>4. SameAnswers(d, e)
    BY <2>2, FrameAnswers
  <2> QED
    BY <1>1, <2>1, <2>2, <2>3, <2>4 DEF e
<1>3. ASSUME a.pending_ind # None
      PROVE  /\ SameAnswers(a, EndedInd(a)) /\ SameAnswers(a, EndInd(a))
             /\ EndedInd(a).next_send_id = a.next_send_id
             /\ EndInd(a).next_send_id = a.next_send_id
  <2> DEFINE d == Destroy(a, a.pending_ind)
             e == EndedInd(a)
  <2>1. /\ d \in Att /\ SameAnswers(a, d) /\ d.next_send_id = a.next_send_id
    BY <1>0, <1>3, HeldOps, DestroyAnswers, DestroyView
  <2>2. /\ SameLink(d, e) /\ e.lost = d.lost /\ e.write_queue = d.write_queue
        /\ e.next_send_id = d.next_send_id /\ e \in Att
    <3>1. e = [d EXCEPT !.pending_ind = None]
      BY DEF EndedInd
    <3> HIDE DEF d
    <3>2. e \in Att
      BY <2>1, <3>1, Zenon DEF Att
    <3> QED
      BY <2>1, <3>1, <3>2 DEF Att, SameLink
  <2>3. EndInd(a) = WakeupWriter(e)
    BY DEF EndInd, EndedInd
  <2> HIDE DEF d, e
  <2>4. SameAnswers(d, e)
    BY <2>2, FrameAnswers
  <2> QED
    BY <1>1, <2>1, <2>2, <2>3, <2>4 DEF e
<1> QED
  BY <1>2, <1>3

LEMMA ReadingAnswers ==
    ASSUME AnswerInv, TypeOK', Reading
    PROVE  AnswerStep
<1>0. TypeOK /\ OpInv /\ att \in Att /\ Sound(att, {}, 0) /\ Room(att, ToCome)
  BY AnswerFacts DEF AnswerInv
<1>1. /\ att.io = "open" /\ Owing(att, Taken)
      /\ \A op \in AnswerOps(att) : op.type = "RSP"
  <2>1. ev # {}
    BY Zenon DEF Reading, ReadNothing, ReadUnexpected, ReadRetry, ReadRsp,
       ReadConf, ReadReq, ReadSecondReq, ReadCmd, ReadUnhandled, Read
  <2> QED
    BY <1>0, <2>1, HandlerOpen, AnswerFacts
<1>2. /\ rx \in Seq(Pdu) /\ peerTx \in Nat /\ Taken \in Int /\ ToCome \in Nat
      /\ MaxOps \in Nat
      /\ Cardinality(att.working) \in Nat /\ att.next_send_id \in Nat
  BY <1>0, Counts
<1>3. SameAnswers(att, att)
  BY Zenon DEF SameAnswers
<1>4. CASE ReadNothing
  <2>1. /\ att'.io = att.io /\ att'.working = att.working
        /\ att'.owed = att.owed /\ att'.lost = att.lost
        /\ att'.write_queue = att.write_queue
        /\ att'.next_send_id = att.next_send_id
    BY <1>0, <1>4 DEF ReadNothing, Att
  <2>2. SameAnswers(att, att') /\ Room(att', ToCome)
    BY <1>0, <2>1, Zenon DEF SameAnswers, AnswerOps, Room
  <2>3. Taken' = Taken /\ ToCome' = ToCome
    BY <1>0, <1>4, QuietCounts, Zenon DEF ReadNothing
  <2> QED
    BY <2>2, <2>3, SameAnswersStep
<1>5. ASSUME NEW pdus, Read(pdus), SameAnswers(att, att'), Room(att', ToCome)
      PROVE  AnswerStep
  BY <1>0, <1>5, ReadCounts, SameAnswersStep
<1>6. CASE ReadUnexpected
  <2>1. att' = att
    BY <1>6, Zenon DEF ReadUnexpected
  <2> QED
    BY <1>0, <1>3, <1>5, <1>6, <2>1, Zenon DEF ReadUnexpected, Room
<1>7. CASE ReadRetry
  <2> DEFINE l == Raised(att.sec, Head(rx))
             q == Requeued(att, l)
  <2>1. att' = WakeupWriter(q) /\ att.pending_req # None
    BY <1>7, Zenon DEF ReadRetry
  <2>2. l \in LOW .. HIGH
    BY <1>0 DEF Raised, LOW, MEDIUM, HIGH, Att
  <2> HIDE DEF l
  <2>3. q \in Att
    BY <1>0, <2>1, <2>2, RequeuedSound
  <2>4. /\ q.io = att.io /\ q.working = att.working /\ q.owed = att.owed
        /\ q.lost = att.lost /\ q.write_queue = att.write_queue
        /\ q.next_send_id = att.next_send_id
    BY <1>0 DEF Requeued, Att
  <2> HIDE DEF q
  <2>5. SameLink(q, att') /\ SameQueues(q, att')
    BY <2>1, <2>3, WakeupWriterFrame
  <2>6. SameAnswers(att, att') /\ Room(att', ToCome)
    BY <1>0, <2>4, <2>5, Zenon
    DEF SameAnswers, AnswerOps, Room, SameLink, SameQueues
  <2> QED
    BY <1>5, <1>7, <2>6, Zenon DEF ReadRetry
<1>8. ASSUME NEW op \in Held(att), NEW a \in AfterCall(att, op)
      PROVE  SameAnswers(att, a) /\ Room(a, ToCome) /\ a \in Att
  <2>1. op \in Op /\ op \in Held(att) \cup {}
    BY <1>0, HeldOps
  <2> QED
    BY <1>0, <1>1, <1>2, <2>1, AfterCallAnswers, AfterCallSound DEF ToCome
<1>9. CASE ReadRsp
  <2>1. PICK a \in AfterCall(att, att.pending_req) : att' = EndReq(a)
    BY <1>9, Zenon DEF ReadRsp
  <2>2. att.pending_req \in Held(att) /\ att.pending_req \in Op
    BY <1>0, <1>9, HeldOps, Zenon DEF ReadRsp
  <2>3. /\ SameAnswers(att, a) /\ Room(a, ToCome) /\ a \in Att
        /\ Sound(a, {}, att.pending_req.id) /\ a.pending_req # None
    <3>1. Sound(a, {}, att.pending_req.id) /\ PendingStays(att, a)
      BY <1>0, <2>2, AfterCallSound
    <3>2. Stripped(att.pending_req) # None
      BY <2>2, StrippedType, NoneAssumption DEF Op
    <3> QED
      BY <1>8, <2>2, <3>1, <3>2, OpSets, Zenon DEF PendingStays
  <2>4. SameAnswers(a, att') /\ att'.next_send_id = a.next_send_id
    BY <2>1, <2>3, EndAnswers
  <2>5. SameAnswers(att, att') /\ Room(att', ToCome)
    BY <2>3, <2>4, SameAnswersOn, Zenon DEF Room, SameAnswers
  <2> QED
    BY <1>5, <1>9, <2>5, Zenon DEF ReadRsp
<1>10. CASE ReadConf
  <2>1. PICK a \in AfterCall(att, att.pending_ind) : att' = EndInd(a)
    BY <1>10, Zenon DEF ReadConf
  <2>2. att.pending_ind \in Held(att) /\ att.pending_ind \in Op
    BY <1>0, <1>10, HeldOps, Zenon DEF ReadConf
  <2>3. /\ SameAnswers(att, a) /\ Room(a, ToCome) /\ a \in Att
        /\ Sound(a, {}, att.pending_ind.id) /\ a.pending_ind # None
    <3>1. Sound(a, {}, att.pending_ind.id) /\ PendingStays(att, a)
      BY <1>0, <2>2, AfterCallSound
    <3>2. Stripped(att.pending_ind) # None
      BY <2>2, StrippedType, NoneAssumption DEF Op
    <3> QED
      BY <1>8, <2>2, <3>1, <3>2, OpSets, Zenon DEF PendingStays
  <2>4. SameAnswers(a, att') /\ att'.next_send_id = a.next_send_id
    BY <2>1, <2>3, EndAnswers
  <2>5. SameAnswers(att, att') /\ Room(att', ToCome)
    BY <2>3, <2>4, SameAnswersOn, Zenon DEF Room, SameAnswers
  <2> QED
    BY <1>5, <1>10, <2>5, Zenon DEF ReadConf
<1>11. CASE ReadReq
  <2> DEFINE r == Taken + 1
             t == TakeRequest(att, r)
  <2>1. PICK a \in Reactions(t) :
            \/ att' = Send(a, "RSP", r)
            \/ att' = [a EXCEPT !.working = @ \cup {r}]
    BY <1>11, Zenon DEF ReadReq, Taken
  <2>2. r \in Requests /\ Taken' = r /\ ToCome' = ToCome - 1
    BY <1>0, <1>11, ReadCounts DEF ReadReq
  <2>3. OwingBut(t, r, r)
    BY <1>0, <1>1, <1>2, RequestTaken
  <2> HIDE DEF r
  <2>4. t \in Att
    <3>1. att.owed \cup {r} \in SUBSET Requests
      BY <1>0, <2>2 DEF Att
    <3> QED
      BY <1>0, <3>1, Zenon DEF TakeRequest, Att
  <2>5. /\ SameQueues(att, t) /\ t.fate = att.fate /\ t.io = att.io
        /\ t.working = att.working
    BY <1>0 DEF TakeRequest, Att, SameQueues
  <2> HIDE DEF t
  <2>6. Sound(t, {}, 0) /\ Room(t, ToCome)
    BY <1>0, <2>5, SameSound, Zenon DEF Room, SameQueues
  <2>7. \A op \in AnswerOps(t) : op.type = "RSP"
    BY <2>3, Zenon DEF OwingBut
  <2>8. /\ a \in Att /\ Sound(a, {}, 0) /\ SameAnswers(t, a)
        /\ Room(a, ToCome)
    BY <1>2, <2>1, <2>4, <2>6, <2>7, ReactionsSound, ReactionsAnswers DEF ToCome
  <2>9. OwingBut(a, r, r) /\ a.io = "open" /\ r \notin a.working
    BY <1>1, <2>3, <2>5, <2>8, SameOwingBut, Zenon DEF SameAnswers, OwingBut
  <2>10. /\ IsFiniteSet(a.working) /\ Cardinality(a.working) \in Nat
         /\ a.next_send_id \in 1 .. MaxOps + 1
    BY <2>8, WorkingFinite DEF Att
  <2>11. ToCome >= 1
    <3>1. ToCome' \in Nat
      <4>1. peerTx' \in Len(rx') .. MaxRx /\ MaxRx \in Nat /\ Len(rx') \in Nat
        BY BoundsAssumption, LenProperties DEF TypeOK
      <4> QED
        BY <4>1 DEF ToCome
    <3> QED
      BY <1>2, <2>2, <3>1
  <2>12. CASE att' = Send(a, "RSP", r)
    <3>1. a.next_send_id \in Ids
      BY <1>2, <2>8, <2>10, <2>11 DEF Room, Ids
    <3>2. /\ Owing(att', r) /\ att'.working = a.working
          /\ att'.next_send_id = a.next_send_id + 1
      BY <2>2, <2>8, <2>9, <2>12, <3>1, AnswerGiven
    <3>3. Room(att', ToCome')
      BY <1>2, <2>2, <2>8, <2>10, <3>2 DEF Room
    <3> QED
      BY <2>2, <3>2, <3>3 DEF AnswerStep
  <2>13. CASE att' = [a EXCEPT !.working = @ \cup {r}]
    <3>1. /\ Owing(att', r) /\ att'.working = a.working \cup {r}
          /\ att'.next_send_id = a.next_send_id
      BY <2>2, <2>8, <2>9, <2>13, AnswerDeferred
    <3>2. Cardinality(att'.working) = Cardinality(a.working) + 1
      BY <2>9, <2>10, <3>1, FS_AddElement
    <3>3. Room(att', ToCome')
      BY <1>2, <2>2, <2>8, <2>10, <3>1, <3>2 DEF Room
    <3> QED
      BY <2>2, <3>1, <3>3 DEF AnswerStep
  <2> QED
    BY <2>1, <2>12, <2>13
<1>12. CASE ReadSecondReq
  <2>1. att' = [att EXCEPT !.reader = FALSE]
    BY <1>12, Zenon DEF ReadSecondReq
  <2>2. /\ att'.io = att.io /\ att'.working = att.working
        /\ att'.owed = att.owed /\ att'.lost = att.lost
        /\ att'.write_queue = att.write_queue
        /\ att'.next_send_id = att.next_send_id
    BY <1>0, <2>1 DEF Att
  <2>3. SameAnswers(att, att') /\ Room(att', ToCome)
    BY <1>0, <2>2, Zenon DEF SameAnswers, AnswerOps, Room
  <2> QED
    BY <1>5, <1>12, <2>3, Zenon DEF ReadSecondReq
<1>13. CASE ReadCmd
  <2>1. SameAnswers(att, att') /\ Room(att', ToCome)
    BY <1>0, <1>1, <1>2, <1>13, ReactionsAnswers DEF ReadCmd, ToCome
  <2> QED
    BY <1>5, <1>13, <2>1, Zenon DEF ReadCmd
<1>14. CASE ReadUnhandled
  <2>1. /\ att' = Send(att, "RSP", 0) /\ Taken' = Taken + 1
        /\ ToCome' = ToCome - 1
    BY <1>0, <1>14, ReadCounts, Zenon DEF ReadUnhandled
  <2>2. CASE att.next_send_id \in Ids
    <3>1. /\ SameAnswers(att, att') /\ att'.working = att.working
          /\ att'.next_send_id = att.next_send_id + 1
      BY <1>0, <1>1, <2>1, <2>2, SendAnswers DEF OpType, SameAnswers
    <3>2. Room(att', ToCome')
      BY <1>0, <1>2, <2>1, <3>1 DEF Room
    <3>3. Owing(att', Taken')
      BY <1>0, <1>1, <1>2, <2>1, <3>1, SameOwing
    <3> QED
      BY <3>2, <3>3 DEF AnswerStep
  <2>3. CASE att.next_send_id \notin Ids
    <3>1. att' = att
      BY <2>1, <2>3, Zenon DEF Send
    <3> QED
      BY <1>0, <1>3, <1>5, <1>14, <3>1, Zenon DEF ReadUnhandled
  <2> QED
    BY <2>2, <2>3
<1> QED
  BY <1>4, <1>6, <1>7, <1>9, <1>10, <1>11, <1>12, <1>13, <1>14 DEF Reading

\* The op that pick_next_send_op takes is no more in the write queue
LEMMA PoppedAnswers ==
    ASSUME NEW a \in Att, Sendable(a), Sound(a, {}, 0)
    PROVE  LET b == Popped(a)
               op == NextOp(a)
           IN  /\ b.io = a.io /\ b.working = a.working /\ b.owed = a.owed
               /\ b.lost = a.lost /\ b.next_send_id = a.next_send_id
               /\ AnswerOps(b) = AnswerOps(a) \ {op}
               /\ op.answers # 0 /\ op.type = "RSP" => op \in AnswerOps(a)
<1> DEFINE b == Popped(a)
           op == NextOp(a)
<1>1. /\ b \in Att /\ op \in Op /\ SameLink(a, b) /\ Ordered(a) /\ Ordered(b)
      /\ b.next_send_id = a.next_send_id
      /\ b.pending_req = a.pending_req /\ b.pending_ind = a.pending_ind
      /\ op \in Held(a) /\ Held(b) = Held(a) \ {op}
      /\ op.type = "REQ" => a.pending_req = None
      /\ op.type = "IND" => a.pending_ind = None
  BY PoppedView, Zenon DEF Sound
<1>2. b.lost = a.lost
  <2>1. Picked(a) \in {"write", "req", "ind"}
    BY DEF Picked
  <2> QED
    BY <2>1, SMT DEF Popped, Att
<1> HIDE DEF b, op
<1>3. \A p \in WriteOp : p.type \notin {"REQ", "IND"}
  BY SMT DEF WriteOp, OpOf, Elicits
<1>4. \A c \in Att : \A p \in Held(c) :
         p.type \notin {"REQ", "IND"} <=> p \in ToSet(c.write_queue)
  <2>1. ASSUME NEW c \in Att, NEW p \in Held(c)
        PROVE  p.type \notin {"REQ", "IND"} <=> p \in ToSet(c.write_queue)
    <3>1. p \in ToSet(c.write_queue) => p.type \notin {"REQ", "IND"}
      BY <1>3, HeldOps, Zenon
    <3>2. p \in ToSet(c.req_queue) => p.type = "REQ"
      BY HeldOps, OpSets, Zenon
    <3>3. p \in ToSet(c.ind_queue) => p.type = "IND"
      BY HeldOps, OpSets, Zenon
    <3>4. p \in Pending(c) => p.type \in {"REQ", "IND"}
      <4>1. /\ c.pending_req # None => c.pending_req.type = "REQ"
            /\ c.pending_ind # None => c.pending_ind.type = "IND"
        BY OpSets, Zenon DEF Att
      <4>2. ASSUME p \in Pending(c)
            PROVE  p # None /\ (p = c.pending_req \/ p = c.pending_ind)
        BY <4>2, Zenon DEF Pending
      <4> QED
        BY <4>1, <4>2, SMT
    <3> QED
      BY <3>1, <3>2, <3>3, <3>4, Zenon DEF Held, Queued
  <2> QED
    BY <2>1
<1>5. \A p : p \in ToSet(b.write_queue) <=> p \in ToSet(a.write_queue) /\ p # op
  <2>1. /\ ToSet(b.write_queue) \subseteq Held(b)
        /\ ToSet(a.write_queue) \subseteq Held(a)
    BY Zenon DEF Held, Queued
  <2> QED
    BY <1>1, <1>4, <2>1, Zenon
<1>6. AnswerOps(b) = AnswerOps(a) \ {op}
  BY <1>5, Zenon DEF AnswerOps
<1>7. op.type = "RSP" => op \in ToSet(a.write_queue)
  BY <1>1, <1>4
<1> QED
  BY <1>1, <1>2, <1>6, <1>7, Zenon DEF SameLink, AnswerOps, b, op

LEMMA TransmittedAnswers ==
    ASSUME NEW a \in Att, NEW op \in Op
    PROVE  LET b == Transmitted(a, op)
           IN  /\ b.io = a.io /\ b.working = a.working /\ b.lost = a.lost
               /\ b.next_send_id = a.next_send_id
               /\ AnswerOps(b) = AnswerOps(a)
               /\ b.owed = IF op.type = "RSP" THEN a.owed \ {op.answers}
                                              ELSE a.owed
<1> DEFINE b == Transmitted(a, op)
<1>1. CASE op.type \in {"REQ", "IND"}
  <2>1. \/ b = [a EXCEPT !.pending_req = op]
        \/ b = [a EXCEPT !.pending_ind = op]
    BY <1>1, SMT DEF Transmitted
  <2>2. /\ b.io = a.io /\ b.working = a.working /\ b.lost = a.lost
        /\ b.next_send_id = a.next_send_id /\ b.owed = a.owed
        /\ b.write_queue = a.write_queue
    BY <2>1 DEF Att
  <2> HIDE DEF b
  <2>3. AnswerOps(b) = AnswerOps(a)
    BY <2>2, Zenon DEF AnswerOps
  <2>4. op.type # "RSP"
    BY <1>1
  <2> QED
    BY <2>2, <2>3, <2>4, Zenon DEF b
<1>2. CASE op.type \notin {"REQ", "IND"}
  <2> DEFINE o == a.owed \ {op.answers}
             q == IF op.type = "RSP"
                  THEN [a EXCEPT !.in_req = FALSE, !.owed = o] ELSE a
  <2>1. q \in Att
    <3>1. o \in SUBSET Requests
      BY DEF Att
    <3> HIDE DEF o
    <3> QED
      BY <3>1, Zenon DEF Att
  <2>2. /\ q.io = a.io /\ q.working = a.working /\ q.lost = a.lost
        /\ q.next_send_id = a.next_send_id /\ q.write_queue = a.write_queue
        /\ q.owed = IF op.type = "RSP" THEN o ELSE a.owed
    BY DEF Att
  <2>3. b = Destroy(q, op)
    BY <1>2, SMT DEF Transmitted
  <2> HIDE DEF q, b
  <2>4. SameLink(q, b) /\ SameQueues(q, b)
    BY <2>1, <2>3, DestroyView
  <2>5. AnswerOps(b) = AnswerOps(a)
    BY <2>2, <2>4, Zenon DEF SameQueues, AnswerOps
  <2> QED
    BY <2>2, <2>4, <2>5, Zenon DEF SameLink, SameQueues, b
<1> QED
  BY <1>1, <1>2

LEMMA WritingAnswers ==
    ASSUME AnswerInv, TypeOK', Writing
    PROVE  AnswerStep
<1>0. /\ TypeOK /\ OpInv /\ att \in Att /\ Sound(att, {}, 0)
      /\ Room(att, ToCome)
  BY AnswerFacts DEF AnswerInv
<1>1. /\ att.io = "open" /\ Owing(att, Taken)
      /\ \A op \in AnswerOps(att) : op.type = "RSP"
  <2>1. ev # {}
    BY Zenon DEF Writing, WriteSend, WriteFail, WriteIdle, Write
  <2> QED
    BY <1>0, <2>1, HandlerOpen, AnswerFacts
<1>2. /\ rx \in Seq(Pdu) /\ peerTx \in Nat
      /\ Taken' = Taken /\ ToCome' = ToCome
  <2>1. UNCHANGED <<rx, peerTx>>
    BY DEF Writing, WriteSend, WriteFail, WriteIdle, Write
  <2> QED
    BY <1>0, <2>1, Counts, QuietCounts
<1> DEFINE p == Popped(att)
           op == NextOp(att)
<1>3. ASSUME Sendable(att)
      PROVE  /\ p \in Att /\ op \in Op /\ Sound(p, {op}, 0)
             /\ p.io = att.io /\ p.working = att.working /\ p.owed = att.owed
             /\ p.lost = att.lost /\ p.next_send_id = att.next_send_id
             /\ AnswerOps(p) = AnswerOps(att) \ {op}
             /\ op.answers # 0 /\ op.type = "RSP" => op \in AnswerOps(att)
  BY <1>0, <1>3, PickedType, PoppedSound, PoppedAnswers
<1>4. CASE WriteSend
  <2>1. Sendable(att) /\ att' = Transmitted(p, op)
    BY <1>4, Zenon DEF WriteSend
  <2> HIDE DEF p, op
  <2>2. /\ att'.io = p.io /\ att'.working = p.working /\ att'.lost = p.lost
        /\ att'.next_send_id = p.next_send_id
        /\ AnswerOps(att') = AnswerOps(p)
        /\ att'.owed = IF op.type = "RSP" THEN p.owed \ {op.answers}
                                          ELSE p.owed
    BY <1>3, <2>1, TransmittedAnswers
  <2>3. /\ att'.io = "open" /\ att'.working = att.working
        /\ att'.lost = att.lost /\ AnswerOps(att') = AnswerOps(att) \ {op}
        /\ att'.next_send_id = att.next_send_id
        /\ att'.owed = IF op.type = "RSP" THEN att.owed \ {op.answers}
                                          ELSE att.owed
    BY <1>1, <1>3, <2>1, <2>2, Zenon
  <2>4. Room(att', ToCome')
    BY <1>0, <1>2, <2>3, Zenon DEF Room
  <2>5. /\ \A q \in AnswerOps(att') : /\ q.type = "RSP" /\ q.answers <= Taken
                                      /\ q.answers \notin att'.working
        /\ \A q, s \in AnswerOps(att') : q.answers = s.answers => q = s
        /\ \A r \in att'.working \cup att'.owed : r <= Taken
    BY <1>1, <2>3, Zenon DEF Owing
  <2>6. ASSUME ~att'.lost, NEW r \in Requests
        PROVE  r \in att'.owed <=> \/ r \in att'.working
                                   \/ \E q \in AnswerOps(att') : q.answers = r
    <3>1. r \in att.owed <=> \/ r \in att.working
                             \/ \E q \in AnswerOps(att) : q.answers = r
      BY <1>1, <2>3, <2>6, Zenon DEF Owing
    <3>2. r # 0
      BY DEF Requests
    <3>3. CASE op.type = "RSP" /\ op.answers # 0
      <4>1. op \in AnswerOps(att) /\ att'.owed = att.owed \ {op.answers}
        BY <1>3, <2>1, <2>3, <3>3, Zenon
      <4>2. /\ op.answers \notin att.working
            /\ \A q \in AnswerOps(att) : q.answers = op.answers => q = op
        BY <1>1, <4>1, Zenon DEF Owing
      <4> QED
        BY <2>3, <3>1, <4>1, <4>2, Zenon
    <3>4. CASE ~(op.type = "RSP" /\ op.answers # 0)
      <4>1. op \notin AnswerOps(att)
        BY <1>1, <3>4, Zenon DEF AnswerOps
      <4>2. r \in att'.owed <=> r \in att.owed
        BY <2>3, <3>2, <3>4, Zenon
      <4>3. AnswerOps(att') = AnswerOps(att)
        BY <2>3, <4>1, Zenon
      <4> QED
        BY <2>3, <3>1, <4>2, <4>3, Zenon
    <3> QED
      BY <3>3, <3>4
  <2>7. Owing(att', Taken')
    BY <1>2, <2>5, <2>6, Zenon DEF Owing
  <2> QED
    BY <2>4, <2>7 DEF AnswerStep
<1>5. CASE WriteFail
  <2>1. Sendable(att)
    BY <1>5, Zenon DEF WriteFail
  <2>2. PICK a \in AfterCall(p, op) : att' = FailedAtt(a, op)
    BY <1>5, Zenon DEF WriteFail, FailedAtt
  <2> HIDE DEF p, op
  <2>3. \A q \in AnswerOps(p) : q.type = "RSP"
    BY <1>1, <1>3, <2>1, Zenon
  <2>4. Room(p, ToCome)
    BY <1>0, <1>3, <2>1, Zenon DEF Room
  <2>5. SameAnswers(p, a) /\ Room(a, ToCome) /\ a \in Att
    <3>1. op \in Held(p) \cup {op}
      OBVIOUS
    <3> QED
      BY <1>2, <1>3, <2>1, <2>2, <2>3, <2>4, <3>1, AfterCallAnswers,
         AfterCallSound DEF ToCome
  <2> DEFINE d == Destroy(a, op)
  <2>6. d \in Att /\ SameAnswers(a, d) /\ d.next_send_id = a.next_send_id
    <3>1. SameAnswers(a, a)
      BY Zenon DEF SameAnswers
    <3> QED
      BY <1>3, <2>1, <2>5, <3>1, DestroyAnswers, DestroyView
  <2> HIDE DEF d
  <2>7. /\ att'.io = d.io /\ att'.working = d.working /\ att'.owed = d.owed
        /\ att'.write_queue = d.write_queue
        /\ att'.next_send_id = d.next_send_id
        /\ att'.lost = (d.lost \/ op.answers # 0)
    BY <2>2, <2>6 DEF FailedAtt, d, Att
  <2>8. AnswerOps(att') = AnswerOps(d)
    BY <2>7, Zenon DEF AnswerOps
  <2>9. /\ att'.io = "open" /\ att'.working = att.working
        /\ att'.owed = att.owed /\ AnswerOps(att') = AnswerOps(att) \ {op}
        /\ ~att'.lost => ~att.lost /\ op.answers = 0
    BY <1>1, <1>3, <2>1, <2>5, <2>6, <2>7, <2>8, Zenon DEF SameAnswers
  <2>10. Room(att', ToCome')
    BY <1>2, <2>5, <2>6, <2>7, Zenon DEF Room, SameAnswers
  <2>11. ~att'.lost => AnswerOps(att') = AnswerOps(att)
    <3>1. op.answers = 0 => op \notin AnswerOps(att)
      BY Zenon DEF AnswerOps
    <3> QED
      BY <2>9, <3>1, Zenon
  <2>12. Owing(att', Taken')
    BY <1>1, <1>2, <2>9, <2>11, Zenon DEF Owing
  <2> QED
    BY <2>10, <2>12 DEF AnswerStep
<1>6. CASE WriteIdle
  <2>1. att' = [att EXCEPT !.writer = FALSE, !.writer_active = FALSE]
    BY <1>6, Zenon DEF WriteIdle
  <2>2. /\ att'.io = att.io /\ att'.working = att.working
        /\ att'.owed = att.owed /\ att'.lost = att.lost
        /\ att'.write_queue = att.write_queue
        /\ att'.next_send_id = att.next_send_id
    BY <1>0, <2>1 DEF Att
  <2>3. SameAnswers(att, att') /\ Room(att', ToCome)
    BY <1>0, <2>2, Zenon DEF SameAnswers, AnswerOps, Room
  <2> QED
    BY <1>2, <2>3, SameAnswersStep
<1> QED
  BY <1>4, <1>5, <1>6 DEF Writing

\* bt_att_cancel_all drops the answers too
LEMMA CancelAllAnswers ==
    ASSUME NEW a \in Att, Sound(a, {}, 0)
    PROVE  LET b == CancelAll(a)
           IN  /\ b.io = a.io /\ b.working = a.working /\ b.owed = a.owed
               /\ b.next_send_id = a.next_send_id /\ AnswerOps(b) = {}
               /\ ~b.lost => ~a.lost /\ AnswerOps(a) = {}
<1> DEFINE q == DestroyQueued(a)
           r == IF q.pending_req = None THEN q ELSE CancelPendingReq(q)
           s == IF r.pending_ind = None THEN r ELSE CancelPendingInd(r)
           b == CancelAll(a)
<1>1. SameLink(a, b) /\ b.write_queue = << >>
  BY CancelAllFrame
<1>2. /\ q \in Att /\ q.next_send_id = a.next_send_id
      /\ q.lost = (a.lost \/ AnswerIn(a.write_queue))
  <2>1. q \in Att
    BY DestroyQueuedType
  <2>2. /\ q.next_send_id = a.next_send_id
        /\ q.lost = (a.lost \/ AnswerIn(a.write_queue))
    BY DEF DestroyQueued, Emptied, Att
  <2> QED
    BY <2>1, <2>2
<1> HIDE DEF q
<1>3. ASSUME NEW c \in Att
      PROVE  /\ c.pending_req # None =>
                    /\ CancelPendingReq(c).lost = c.lost
                    /\ CancelPendingReq(c).next_send_id = c.next_send_id
             /\ c.pending_ind # None =>
                    /\ CancelPendingInd(c).lost = c.lost
                    /\ CancelPendingInd(c).next_send_id = c.next_send_id
  <2>1. c.pending_req # None =>
            /\ Destroy(c, c.pending_req) \in Att
            /\ SameQueues(c, Destroy(c, c.pending_req))
    BY HeldOps, DestroyView
  <2>2. c.pending_ind # None =>
            /\ Destroy(c, c.pending_ind) \in Att
            /\ SameQueues(c, Destroy(c, c.pending_ind))
    BY HeldOps, DestroyView
  <2> QED
    BY <2>1, <2>2 DEF CancelPendingReq, CancelPendingInd, SameQueues, Att
<1>4. r \in Att /\ r.lost = q.lost /\ r.next_send_id = q.next_send_id
  BY <1>2, <1>3, CancelPendingReqType
<1> HIDE DEF r
<1>5. s.lost = r.lost /\ s.next_send_id = r.next_send_id
  BY <1>3, <1>4
<1>6. b = s
  BY DEF CancelAll, q, r
<1> HIDE DEF s, b
<1>7. /\ b.next_send_id = a.next_send_id
      /\ b.lost <=> (a.lost \/ AnswerIn(a.write_queue))
  BY <1>2, <1>4, <1>5, <1>6, Zenon
<1>8. AnswerOps(b) = {}
  BY <1>1, EmptyQueue, Zenon DEF AnswerOps
<1>9. ~AnswerIn(a.write_queue) => AnswerOps(a) = {}
  BY Zenon DEF AnswerIn, AnswerOps
<1> QED
  BY <1>1, <1>7, <1>8, <1>9, Zenon DEF SameLink, b

LEMMA OtherAnswers ==
    ASSUME AnswerInv, TypeOK',
           Disconnect \/ TimeoutReq \/ TimeoutInd \/ UserCall \/ Respond \/ Unref
    PROVE  AnswerStep
<1>0. /\ TypeOK /\ OpInv /\ att \in Att /\ Sound(att, {}, 0)
      /\ Room(att, ToCome) /\ Ended
      /\ att.io = "open" => Owing(att, Taken)
  BY AnswerFacts DEF AnswerInv, OpInv
<1>1. Taken' = Taken /\ ToCome' = ToCome
  <2>1. UNCHANGED <<rx, peerTx>>
    BY DEF Disconnect, TimeoutReq, TimeoutInd, UserCall, Respond, Unref
  <2> QED
    BY <1>0, <2>1, QuietCounts
<1>2. ASSUME att'.io # "open", att'.next_send_id = att.next_send_id,
             att'.working = att.working
      PROVE  AnswerStep
  BY <1>0, <1>1, <1>2, Zenon DEF AnswerStep, Owing, Room
<1>3. ASSUME SameAnswers(att, att'), att'.next_send_id = att.next_send_id
      PROVE  AnswerStep
  <2>1. Room(att', ToCome)
    BY <1>0, <1>3, Zenon DEF Room, SameAnswers
  <2> QED
    BY <1>1, <1>3, <2>1, SameAnswersStep
<1>4. CASE Disconnect
  <2>1. /\ att'.io = "null" /\ att'.next_send_id = att.next_send_id
        /\ att'.working = att.working
    BY <1>0, <1>4, DisconnectLeaves, DisconnectedIs
  <2>2. att'.io # "open"
    BY <2>1
  <2> QED
    BY <1>2, <2>1, <2>2
<1>5. CASE TimeoutReq
  <2>1. att' = EndedReq(att) /\ att.pending_req # None
    BY <1>5, Zenon DEF TimeoutReq, EndedReq
  <2> QED
    BY <1>0, <1>3, <2>1, EndAnswers
<1>6. CASE TimeoutInd
  <2>1. att' = EndedInd(att) /\ att.pending_ind # None
    BY <1>6, Zenon DEF TimeoutInd, EndedInd
  <2> QED
    BY <1>0, <1>3, <2>1, EndAnswers
<1>7. CASE UserCall
  <2>1. att.io = "open" /\ (att' \in Reactions(att) \/ att' = CancelAll(att))
    BY <1>7, Zenon DEF UserCall, Reactions
  <2>2. CASE att' \in Reactions(att)
    <3>1. SameAnswers(att, att') /\ Room(att', ToCome)
      <4>1. \A op \in AnswerOps(att) : op.type = "RSP"
        BY <2>1, AnswerFacts
      <4> QED
        BY <1>0, <2>2, <4>1, Counts, ReactionsAnswers DEF ToCome
    <3> QED
      BY <1>1, <3>1, SameAnswersStep
  <2>3. CASE att' = CancelAll(att)
    <3>1. /\ att'.io = att.io /\ att'.working = att.working
          /\ att'.owed = att.owed
          /\ att'.next_send_id = att.next_send_id /\ AnswerOps(att') = {}
          /\ ~att'.lost => ~att.lost /\ AnswerOps(att) = {}
      BY <1>0, <2>3, CancelAllAnswers
    <3>2. Owing(att', Taken') /\ Room(att', ToCome')
      BY <1>0, <1>1, <2>1, <3>1, Zenon DEF Owing, Room
    <3> QED
      BY <3>2 DEF AnswerStep
  <2> QED
    BY <2>1, <2>2, <2>3
<1>8. CASE Respond
  <2>1. PICK r \in att.working :
            att' = Send([att EXCEPT !.working = @ \ {r}], "RSP", r)
    BY <1>8, Zenon DEF Respond
  <2> DEFINE w == att.working \ {r}
             b == [att EXCEPT !.working = w]
  <2>2. r \in Requests /\ w \in SUBSET Requests /\ att' = Send(b, "RSP", r)
    BY <1>0, <2>1 DEF Att
  <2> HIDE DEF w
  <2>3. b \in Att
    BY <1>0, <2>2, Zenon DEF Att
  <2>4. /\ b.io = att.io /\ b.working = w /\ b.owed = att.owed
        /\ b.lost = att.lost /\ b.write_queue = att.write_queue
        /\ b.next_send_id = att.next_send_id
        /\ SameQueues(att, b) /\ b.fate = att.fate
    BY <1>0 DEF Att, SameQueues
  <2> HIDE DEF b
  <2>5. /\ Cardinality(w) = Cardinality(att.working) - 1
        /\ Cardinality(att.working) \in Nat
        /\ Cardinality(w) \in Nat
    <3>1. IsFiniteSet(att.working)
      BY <1>0, WorkingFinite
    <3>2. Cardinality(w) \in Nat
      BY <2>3, <2>4, WorkingFinite
    <3> QED
      BY <1>0, <2>1, <3>1, <3>2, FS_RemoveElement, WorkingFinite DEF w
  <2>6. /\ MaxOps \in Nat /\ ToCome \in Nat /\ att.next_send_id \in Nat
    BY <1>0, Counts
  <2>7. CASE att.io = "open"
    <3>1. OwingBut(b, Taken, r)
      BY <1>0, <2>1, <2>4, <2>7, WorkDone DEF w
    <3>2. b.next_send_id \in Ids
      <4>1. att.next_send_id \in 1 .. MaxOps + 1
        BY <1>0, Zenon DEF Att
      <4> QED
        BY <1>0, <2>4, <2>5, <2>6, <4>1 DEF Room, Ids
    <3>3. Sound(b, {}, 0)
      BY <1>0, <2>4, SameSound
    <3>4. /\ Owing(att', Taken) /\ att'.working = w
          /\ att'.next_send_id = att.next_send_id + 1
      BY <2>2, <2>3, <2>4, <2>7, <3>1, <3>2, <3>3, AnswerGiven
    <3>5. Room(att', ToCome)
      BY <1>0, <2>5, <2>6, <3>4 DEF Room
    <3> QED
      BY <1>1, <3>4, <3>5 DEF AnswerStep
  <2>8. CASE att.io # "open"
    <3>1. att' = b
      BY <2>2, <2>4, <2>8, Zenon DEF Send
    <3>2. Room(att', ToCome)
      BY <1>0, <2>4, <2>5, <2>6, <3>1 DEF Room
    <3> QED
      BY <1>1, <2>4, <2>8, <3>1, <3>2, Zenon DEF AnswerStep, Owing
  <2> QED
    BY <2>7, <2>8
<1>9. CASE Unref
  <2> DEFINE c == CancelAll(att)
             i == IoDestroyed(c, "freed")
  <2>1. /\ c \in Att /\ c.working = att.working
        /\ c.next_send_id = att.next_send_id
    BY <1>0, CancelAllAnswers, CancelAllType
  <2> HIDE DEF c
  <2>2. /\ i \in Att /\ i.io = "freed" /\ i.working = c.working
        /\ i.next_send_id = c.next_send_id
    BY <2>1, IoDestroyedType, ZenonT(30) DEF IoDestroyed, Att
  <2>3. att' = [i EXCEPT !.pending_req = None, !.pending_ind = None,
                         !.owed = {}]
    BY <1>9, Zenon DEF Unref, c
  <2> HIDE DEF i
  <2>4. /\ att'.io # "open" /\ att'.next_send_id = att.next_send_id
        /\ att'.working = att.working
    BY <2>1, <2>2, <2>3 DEF Att
  <2> QED
    BY <1>2, <2>4
<1> QED
  BY <1>4, <1>5, <1>6, <1>7, <1>8, <1>9

LEMMA EnvironmentAnswers ==
    ASSUME AnswerInv, TypeOK',
           (\E writable \in BOOLEAN : Poll(writable)) \/ PeerSend \/ PeerLeave
               \/ UNCHANGED vars
    PROVE  AnswerStep
<1>1. att' = att /\ Owing(att, Taken) /\ Room(att, ToCome) /\ TypeOK
  BY AnswerFacts DEF Poll, PeerSend, PeerLeave, vars, AnswerInv
<1>2. Taken' = Taken /\ ToCome' = ToCome
  <2>1. CASE PeerSend
    <3>1. PICK p \in PeerPdus : rx' = Append(rx, p)
      BY <2>1 DEF PeerSend
    <3>2. /\ rx \in Seq(Pdu) /\ p \in Pdu /\ peerTx' = peerTx + 1
          /\ peerTx \in Len(rx) .. MaxRx /\ MaxRx \in Nat /\ Len(rx) \in Nat
      BY <1>1, <2>1, PeerAssumption, BoundsAssumption, LenProperties
      DEF TypeOK, PeerSend
    <3>3. Len(rx') = Len(rx) + 1
      BY <3>1, <3>2
    <3> QED
      BY <3>2, <3>3 DEF Taken, ToCome
  <2>2. CASE UNCHANGED <<rx, peerTx>>
    BY <1>1, <2>2, QuietCounts
  <2> QED
    BY <2>1, <2>2 DEF Poll, PeerLeave, vars
<1> QED
  BY <1>1, <1>2, Zenon DEF AnswerStep, Owing, Room

LEMMA AnswerInvNext == AnswerInv /\ [Next]_vars => AnswerInv'
<1> SUFFICES ASSUME AnswerInv, [Next]_vars PROVE AnswerInv'
  OBVIOUS
<1>1. OpInv' /\ TypeOK'
  BY OpInvNext, NextType DEF AnswerInv, OpInv
<1>2. AnswerStep
  BY <1>1, ReadingAnswers, WritingAnswers, OtherAnswers, EnvironmentAnswers
  DEF Next
<1> QED
  BY <1>1, <1>2 DEF AnswerInv, AnswerStep

LEMMA AnswerInvInit == Init => AnswerInv
<1> SUFFICES ASSUME Init PROVE AnswerInv
  OBVIOUS
<1>1. OpInv /\ TypeOK
  BY OpInvInit DEF OpInv
<1>2. /\ att.working = {} /\ att.owed = {} /\ att.write_queue = << >>
      /\ att.next_send_id = 1 /\ rx = << >> /\ peerTx = 0
  BY DEF Init
<1>3. AnswerOps(att) = {}
  BY <1>2, EmptyQueue, Zenon DEF AnswerOps
<1>4. Owing(att, Taken)
  BY <1>2, <1>3, Zenon DEF Owing
<1>5. Room(att, ToCome)
  <2>1. Cardinality(att.working) = 0
    BY <1>2, FS_EmptySet
  <2>2. ToCome = MaxRx /\ MaxRx \in 0 .. MaxOps /\ MaxOps \in Nat
    BY <1>2, BoundsAssumption DEF ToCome
  <2> QED
    BY <1>2, <2>1, <2>2 DEF Room
<1> QED
  BY <1>1, <1>4, <1>5 DEF AnswerInv

(* An answer that is owed is on its way along exactly one path: a handler   *)
(* at work or one response in the write queue (can_read_data, bt_att_send, *)
(* can_write_data), unless writev failed for it or it was cancelled. No     *)
(* call of a callback can drop or duplicate it.                            *)
THEOREM OneWayToAnswer == Spec => []AnswerOnTheWay
<1>1. AnswerInv => AnswerOnTheWay
  <2> SUFFICES ASSUME AnswerInv, att.io = "open", ~att.lost, NEW r \in Requests
               PROVE  LET brings == {k \in DOMAIN att.write_queue :
                                         att.write_queue[k].answers = r}
                      IN  /\ r \in att.owed <=> r \in att.working \/ brings # {}
                          /\ r \in att.working => brings = {}
                          /\ \A j, k \in brings : j = k
    BY DEF AnswerOnTheWay
  <2> DEFINE q == att.write_queue
             brings == {k \in DOMAIN q : q[k].answers = r}
  <2>1. /\ Owing(att, Taken) /\ Increasing(q) /\ att \in Att
        /\ q \in Seq(WriteOp)
    <3>1. att \in Att
      BY DEF AnswerInv, OpInv, TypeOK
    <3> QED
      BY <3>1, Zenon DEF AnswerInv, OpInv, Sound, Ordered, Att
  <2>2. r # 0
    BY DEF Requests
  <2>3. /\ \A op \in AnswerOps(att) : op.answers \notin att.working
        /\ \A x, y \in AnswerOps(att) : x.answers = y.answers => x = y
    BY <2>1, Zenon DEF Owing
  <2>4. \A k \in brings : q[k] \in AnswerOps(att) /\ q[k].answers = r
    BY <2>2, Zenon DEF AnswerOps, ToSet
  <2>5. \A op \in AnswerOps(att) : op.answers = r => \E k \in brings : q[k] = op
    BY Zenon DEF AnswerOps, ToSet
  <2>6. ASSUME NEW j \in brings, NEW k \in brings
        PROVE  j = k
    <3>1. q[j] = q[k]
      BY <2>4, <2>3, SMT
    <3>2. j \in Int /\ k \in Int /\ j \in DOMAIN q /\ k \in DOMAIN q
      BY <2>1, LenProperties
    <3>3. q[j].id \in Int
      <4>1. q[j] \in WriteOp
        BY <2>1, <3>2, ElementOfSeq, LenProperties
      <4> QED
        BY <4>1 DEF WriteOp, OpOf, Ids
    <3>4. ~(j < k) /\ ~(k < j)
      BY <2>1, <3>1, <3>2, <3>3 DEF Increasing
    <3> QED
      BY <3>2, <3>4
  <2> HIDE DEF brings, q
  <2>7. r \in att.owed <=> r \in att.working \/ brings # {}
    BY <2>1, <2>4, <2>5, ZenonT(30) DEF Owing
  <2>8. r \in att.working => brings = {}
    BY <2>4, <2>3, SMT
  <2> QED
    BY <2>6, <2>7, <2>8 DEF brings, q
<1>2. AnswerInv /\ [Next]_vars => AnswerInv'
  BY AnswerInvNext
<1> QED
  BY <1>1, <1>2, AnswerInvInit, PTL DEF Spec
=============================================================================
