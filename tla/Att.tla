-------------------------------- MODULE Att --------------------------------
(***************************************************************************)
(* One ATT bearer: bluez-5.50/src/shared/att.c as it is driven by the      *)
(* epoll callback of io-mainloop.c.  The main loop is single threaded, so  *)
(* one handler (one of the three branches of io_callback, a timer, a call  *)
(* of the upper layer) is one action.  The fields of `att' are those of    *)
(* struct bt_att and struct io; a handler is the composition, in the       *)
(* order of the code, of the functions it calls.                           *)
(*                                                                         *)
(* The upper layer (gatt-server.c and its callbacks) is seen through its   *)
(* calls only: bt_att_send and bt_att_cancel from an event of its own or   *)
(* from inside a callback, bt_att_cancel_all and the last bt_att_unref     *)
(* from an event of its own.  AttHandlers has the bt_att_unref inside a    *)
(* callback; destroy hooks make no call.                                   *)
(***************************************************************************)
EXTENDS Naturals, Sequences, SequencesExt, FiniteSets

CONSTANTS
    None,        \* NULL for pending_req and pending_ind
    MaxOps,      \* bound: calls of bt_att_send on one bearer
    MaxRx,       \* bound: PDUs the peer sends on one connection
    PeerPdus,    \* the kinds of PDU the peer sends, a subset of Pdu
    UserOps,     \* the types of PDU the upper layer sends by itself
    Deferred,    \* TRUE if a request handler may return before it answers
    SendMayFail  \* TRUE if writev may fail (ENOMEM) on a link that is up

Ids == 1 .. MaxOps

\* ATT_OP_TYPE_*, the types bt_att_send accepts
OpType == {"REQ", "RSP", "CMD", "IND", "NOT", "CONF"}

\* struct att_send_op. `hooked' is FALSE once cancel_att_send_op stripped the
\* op of its callbacks; `answers' is the request a RSP answers, a position in
\* the stream of PDUs of the peer, or 0.
Requests == 1 .. MaxRx
OpOf(types) == [id : Ids, type : types, hooked : BOOLEAN,
                answers : Requests \cup {0}]

Elicits == {"REQ", "IND"}    \* types that must have a response callback

Op == OpOf(OpType)
ReqOp == OpOf({"REQ"})
IndOp == OpOf({"IND"})
WriteOp == OpOf(OpType \ Elicits)

\* What can_read_data tells apart. "RSP": a response that ends the request,
\* whether it matches or not; ERR_AUTH, ERR_ENC: an error response whose code
\* makes change_security raise the security level; BAD_CONF: a confirmation
\* with a payload; UNKNOWN, NOT, IND: PDUs the server has no handler for.
Pdu == {"REQ", "CMD", "RSP", "ERR_AUTH", "ERR_ENC", "CONF", "BAD_CONF",
        "UNKNOWN", "NOT", "IND"}

\* BT_ATT_SECURITY_*; bt_att_set_security refuses a level above HIGH
LOW == 1
MEDIUM == 2
HIGH == 3

ASSUME NoneAssumption == None \notin Op
ASSUME BoundsAssumption == MaxOps \in Nat /\ MaxRx \in 0 .. MaxOps
ASSUME PeerAssumption == PeerPdus \subseteq Pdu
ASSUME UserAssumption == UserOps \subseteq OpType \ {"RSP"}
ASSUME FlagAssumption == Deferred \in BOOLEAN /\ SendMayFail \in BOOLEAN

VARIABLES
    att,    \* the bearer
    ev,     \* the epoll events io_callback has yet to handle
    link,   \* "up", or "down" once the peer left or io_shutdown was called
    rx,     \* PDUs waiting in the socket
    peerTx  \* how many PDUs the peer has sent

vars == <<att, ev, link, rx, peerTx>>

\* What became of an op's callbacks: "open" (not run), "called" (callback run,
\* destroy not yet), "answered" (callback, then destroy), "dropped" (destroy
\* without callback), "twice" (any other sequence of calls).
Fate == {"unused", "open", "called", "answered", "dropped", "twice"}

Att == [io : {"open", "null", "freed"},
        reader : BOOLEAN,          \* read handler set on the io
        writer : BOOLEAN,          \* write handler set on the io
        writer_active : BOOLEAN,
        req_queue : Seq(ReqOp), ind_queue : Seq(IndOp),
        write_queue : Seq(WriteOp),
        pending_req : ReqOp \cup {None}, pending_ind : IndOp \cup {None},
        in_req : BOOLEAN,
        next_send_id : 1 .. MaxOps + 1,
        sec : LOW .. HIGH,         \* level the kernel holds for the link
        fate : [Ids -> Fate],      \* history: see Fate
        working : SUBSET Requests, \* those a handler has yet to answer
        owed : SUBSET Requests,    \* history: those taken, no answer sent
        lost : BOOLEAN]            \* history: writev failed for an answer

Init ==
    /\ att = [io |-> "open", reader |-> TRUE, writer |-> FALSE,
              writer_active |-> FALSE, req_queue |-> <<>>,
              ind_queue |-> <<>>, write_queue |-> <<>>,
              pending_req |-> None, pending_ind |-> None, in_req |-> FALSE,
              next_send_id |-> 1, sec |-> LOW,
              fate |-> [i \in Ids |-> "unused"],
              working |-> {}, owed |-> {}, lost |-> FALSE]
    /\ ev = {}
    /\ link = "up"
    /\ rx = <<>>
    /\ peerTx = 0

-----------------------------------------------------------------------------
(* The functions of att.c, as maps from a bearer to a bearer.              *)

AfterCallback == [f \in Fate |-> IF f = "open" THEN "called" ELSE "twice"]
AfterDestroy == [f \in Fate |-> CASE f = "open" -> "dropped"
                                  [] f = "called" -> "answered"
                                  [] OTHER -> "twice"]

Fated(a, id, f) == [a EXCEPT !.fate = [@ EXCEPT ![id] = f]]

\* op->callback(...), when there is one
Callback(a, op) ==
    IF op.hooked /\ op.type \in Elicits
    THEN Fated(a, op.id, AfterCallback[a.fate[op.id]])
    ELSE a

\* destroy_att_send_op and, for the destroy hook, cancel_att_send_op
Destroy(a, op) ==
    IF op.hooked THEN Fated(a, op.id, AfterDestroy[a.fate[op.id]]) ELSE a

Stripped(op) == [op EXCEPT !.hooked = FALSE]

\* Something pick_next_send_op could take from the queues
Sendable(a) ==
    \/ a.write_queue # <<>>
    \/ a.pending_req = None /\ a.req_queue # <<>>
    \/ a.pending_ind = None /\ a.ind_queue # <<>>

WakeupWriter(a) ==
    IF ~a.writer_active /\ Sendable(a) /\ a.io = "open"
    THEN [a EXCEPT !.writer = TRUE, !.writer_active = TRUE]
    ELSE a

Push(a, op) ==
    CASE op.type = "REQ" -> [a EXCEPT !.req_queue = Append(@, op)]
      [] op.type = "IND" -> [a EXCEPT !.ind_queue = Append(@, op)]
      [] OTHER -> [a EXCEPT !.write_queue = Append(@, op)]

\* Mutant of Send: bt_att_send without its wakeup_writer
SendAsleep(a, type, answers) ==
    IF a.io = "open" /\ a.next_send_id \in Ids
    THEN LET op == [id |-> a.next_send_id, type |-> type, hooked |-> TRUE,
                    answers |-> answers]
         IN  Push(Fated([a EXCEPT !.next_send_id = @ + 1], op.id, "open"), op)
    ELSE a

\* bt_att_send. Without an io it returns 0; the id counter stops at MaxOps.
Send(a, type, answers) ==
    IF a.io = "open" /\ a.next_send_id \in Ids
    THEN LET op == [id |-> a.next_send_id, type |-> type, hooked |-> TRUE,
                    answers |-> answers]
             b == [a EXCEPT !.next_send_id = @ + 1]
         IN  WakeupWriter(Push(Fated(b, op.id, "open"), op))
    ELSE a

\* Mutant of CancelPendingReq: the op keeps its hooks
CancelPendingReqHooked(a) == Destroy(a, a.pending_req)

(* bt_att_cancel. An op on the air only loses its hooks; a queued op goes.  *)
CancelPendingReq(a) ==
    [Destroy(a, a.pending_req) EXCEPT !.pending_req = Stripped(@)]
CancelPendingInd(a) ==
    [Destroy(a, a.pending_ind) EXCEPT !.pending_ind = Stripped(@)]
CancelReq(a, k) ==
    WakeupWriter(Destroy([a EXCEPT !.req_queue = RemoveAt(@, k)],
                         a.req_queue[k]))
CancelInd(a, k) ==
    WakeupWriter(Destroy([a EXCEPT !.ind_queue = RemoveAt(@, k)],
                         a.ind_queue[k]))
CancelWrite(a, k) ==
    WakeupWriter(Destroy([a EXCEPT !.write_queue = RemoveAt(@, k)],
                         a.write_queue[k]))

\* The bearers one call of bt_att_cancel may lead to. The upper layer knows
\* the ids of the ops it sent, not those of the responses.
Cancelled(a) ==
    {CancelPendingReq(a) : x \in {a.pending_req} \ {None}} \cup
    {CancelPendingInd(a) : x \in {a.pending_ind} \ {None}} \cup
    {CancelReq(a, k) : k \in DOMAIN a.req_queue} \cup
    {CancelInd(a, k) : k \in DOMAIN a.ind_queue} \cup
    {CancelWrite(a, k) : k \in {j \in DOMAIN a.write_queue :
                                    a.write_queue[j].type # "RSP"}}

\* Of the MaxOps ids one is kept for each handler still to answer and for
\* each PDU the peer may still have answered
Reserved(a) == Cardinality(a.working) + (MaxRx - peerTx) + Len(rx)

Submitted(a) == IF a.next_send_id + Reserved(a) <= MaxOps
                THEN {Send(a, t, 0) : t \in UserOps} ELSE {}

\* What a callback of the upper layer may do to the bearer: nothing, or one
\* call of bt_att_send or bt_att_cancel
Reactions(a) == {a} \cup Submitted(a) \cup Cancelled(a)

Queued(a) == ToSet(a.req_queue) \cup ToSet(a.ind_queue)
                 \cup ToSet(a.write_queue)
Pending(a) == {a.pending_req, a.pending_ind} \ {None}

Emptied(a) == [a EXCEPT !.req_queue = <<>>, !.ind_queue = <<>>,
                        !.write_queue = <<>>]

AnswerIn(q) == \E op \in ToSet(q) : op.answers # 0

\* queue_remove_all(..., destroy_att_send_op) on the three queues
DestroyQueued(a) ==
    [Emptied(a) EXCEPT
        !.fate = [i \in Ids |->
            IF \E op \in Queued(a) : op.id = i /\ op.hooked
            THEN AfterDestroy[@[i]] ELSE @[i]],
        !.lost = @ \/ AnswerIn(a.write_queue)]

\* bt_att_cancel_all
CancelAll(a) ==
    LET q == DestroyQueued(a)
        r == IF q.pending_req = None THEN q ELSE CancelPendingReq(q)
    IN  IF r.pending_ind = None THEN r ELSE CancelPendingInd(r)

\* The order in which disconnect_cb runs callbacks. A queue is emptied before
\* it is walked, so that bt_att_cancel finds only what comes behind it.
Walked(a) == <<ToSet(a.req_queue), ToSet(a.ind_queue),
               {a.pending_req} \ {None}, {a.pending_ind} \ {None}>>

\* The ops a callback of disconnect_cb may cancel: one of an earlier stage.
\* Those of the write queue have no callback and are dropped either way.
Cancellable(a) ==
    {i \in Ids : \E j, k \in 1 .. 4 :
        /\ j < k
        /\ \E op \in Walked(a)[j] : op.hooked
        /\ \E op \in Walked(a)[k] : op.id = i}

\* disc_att_send_op on every op: its callback with an error, then its destroy;
\* the callbacks have cancelled the ops in C before their turn came
DisconnectAll(a, C) ==
    LET hooked(i, types) == \E op \in Queued(a) \cup Pending(a) :
                                op.id = i /\ op.hooked /\ op.type \in types
        called == [i \in Ids |-> IF i \notin C /\ hooked(i, Elicits)
                                 THEN AfterCallback[a.fate[i]] ELSE a.fate[i]]
    IN  [Emptied(a) EXCEPT
            !.pending_req = None, !.pending_ind = None,
            !.fate = [i \in Ids |-> IF hooked(i, OpType)
                                    THEN AfterDestroy[called[i]]
                                    ELSE called[i]]]

\* io_destroy: no handler is left and write_watch_destroy has run
IoDestroyed(a, io) == [a EXCEPT !.io = io, !.reader = FALSE, !.writer = FALSE,
                                !.writer_active = FALSE]

-----------------------------------------------------------------------------
(* The main loop. epoll_wait reports what is ready; io_callback then runs   *)
(* the disconnect branch alone, or the read branch and the write branch.    *)

Idle == ev = {}

Ready(writable) ==
    IF link = "down" THEN {"HUP"}
    ELSE {e \in {"IN", "OUT"} : IF e = "IN" THEN att.reader /\ rx # <<>>
                                ELSE att.writer /\ writable}

\* epoll_wait returns; `writable' is whether the socket has room
Poll(writable) ==
    /\ Idle
    /\ att.io = "open"
    /\ Ready(writable) # {}
    /\ ev' = Ready(writable)
    /\ UNCHANGED <<att, link, rx, peerTx>>

\* can_read_data takes the next PDU out of the socket
Read(pdus) ==
    /\ "IN" \in ev
    /\ rx # <<>> /\ Head(rx) \in pdus
    /\ rx' = Tail(rx)
    /\ ev' = ev \ {"IN"}
    /\ UNCHANGED peerTx

\* The link went down after epoll_wait: read returns 0, which changes
\* nothing, or fails, and then the read handler is removed
ReadNothing ==
    /\ "IN" \in ev
    /\ link = "down"
    /\ att' \in {att, [att EXCEPT !.reader = FALSE]}
    /\ ev' = ev \ {"IN"}
    /\ UNCHANGED <<link, rx, peerTx>>

\* handle_rsp without a pending request, handle_conf without a pending
\* indication or with a payload: io_shutdown
ReadUnexpected ==
    /\ Read({"RSP", "ERR_AUTH", "ERR_ENC", "CONF", "BAD_CONF"})
    /\ CASE Head(rx) = "BAD_CONF" -> TRUE
         [] Head(rx) = "CONF" -> att.pending_ind = None
         [] OTHER -> att.pending_req = None
    /\ link' = "down"
    /\ UNCHANGED att

\* Mutant of Raised: level 4 (FIPS) instead of HIGH
RaisedToFips(level, pdu) == IF level < MEDIUM THEN MEDIUM
                            ELSE IF pdu = "ERR_AUTH" THEN 4 ELSE level

\* change_security: the level asked for after an error response
Raised(level, pdu) == IF level < MEDIUM THEN MEDIUM
                      ELSE IF pdu = "ERR_AUTH" THEN HIGH ELSE level

\* Mutant of Requeued: the request goes to the tail
RequeuedLast(a, level) ==
    [a EXCEPT !.sec = level, !.pending_req = None,
              !.req_queue = Append(@, a.pending_req)]

\* handle_error_rsp: the request goes back to the head of its queue
Requeued(a, level) ==
    [a EXCEPT !.sec = level, !.pending_req = None,
              !.req_queue = Cons(a.pending_req, @)]

ReadRetry ==
    /\ Read({"ERR_AUTH", "ERR_ENC"})
    /\ att.pending_req # None
    /\ Raised(att.sec, Head(rx)) > att.sec
    /\ att' = WakeupWriter(Requeued(att, Raised(att.sec, Head(rx))))
    /\ UNCHANGED link

\* Mutant of EndReq: no wakeup_writer
EndReqAsleep(a) == [Destroy(a, a.pending_req) EXCEPT !.pending_req = None]

EndReq(a) == WakeupWriter([Destroy(a, a.pending_req) EXCEPT
                               !.pending_req = None])
EndInd(a) == WakeupWriter([Destroy(a, a.pending_ind) EXCEPT
                               !.pending_ind = None])

\* What follows the callback of op: nothing when there was no callback
AfterCall(a, op) == IF op.hooked THEN Reactions(Callback(a, op)) ELSE {a}

\* handle_rsp up to its end. It is also where an error response leads when
\* the security level cannot be raised or setsockopt refuses.
ReadRsp ==
    /\ Read({"RSP", "ERR_AUTH", "ERR_ENC"})
    /\ att.pending_req # None
    /\ \E a \in AfterCall(att, att.pending_req) : att' = EndReq(a)
    /\ UNCHANGED link

\* handle_conf
ReadConf ==
    /\ Read({"CONF"})
    /\ att.pending_ind # None
    /\ \E a \in AfterCall(att, att.pending_ind) : att' = EndInd(a)
    /\ UNCHANGED link

\* A request: in_req is set, then the handler calls the upper layer, which
\* may use the bearer and answers now or, if it is Deferred, later
TakeRequest(a, r) == [a EXCEPT !.in_req = TRUE, !.owed = @ \cup {r}]

ReadReq ==
    /\ Read({"REQ"})
    /\ ~att.in_req
    /\ LET r == peerTx - Len(rx) + 1
       IN  \E a \in Reactions(TakeRequest(att, r)) :
               \/ att' = Send(a, "RSP", r)
               \/ Deferred /\ att' = [a EXCEPT !.working = @ \cup {r}]
    /\ UNCHANGED link

\* A request while in_req: the bearer is shut down, the read handler removed
ReadSecondReq ==
    /\ Read({"REQ"})
    /\ att.in_req
    /\ att' = [att EXCEPT !.reader = FALSE]
    /\ link' = "down"

\* A command goes to its handler, which owes no answer
ReadCmd ==
    /\ Read({"CMD"})
    /\ att' \in Reactions(att)
    /\ UNCHANGED link

\* handle_notify finds no handler: respond_not_supported
ReadUnhandled ==
    /\ Read({"UNKNOWN", "NOT", "IND"})
    /\ att' = Send(att, "RSP", 0)
    /\ UNCHANGED link

-----------------------------------------------------------------------------
(* can_write_data                                                           *)

\* Mutant of Picked: a request is sent although one is pending
PickedBusy(a) == CASE a.write_queue # <<>> -> "write"
                   [] a.write_queue = <<>> /\ a.req_queue # <<>> -> "req"
                   [] OTHER -> "ind"

\* pick_next_send_op: the queue the next op comes from
Picked(a) == CASE a.write_queue # <<>> -> "write"
               [] a.write_queue = <<>> /\ a.pending_req = None
                      /\ a.req_queue # <<>> -> "req"
               [] OTHER -> "ind"

Popped(a) == CASE Picked(a) = "write" -> [a EXCEPT !.write_queue = Tail(@)]
               [] Picked(a) = "req" -> [a EXCEPT !.req_queue = Tail(@)]
               [] Picked(a) = "ind" -> [a EXCEPT !.ind_queue = Tail(@)]

NextOp(a) == CASE Picked(a) = "write" -> Head(a.write_queue)
               [] Picked(a) = "req" -> Head(a.req_queue)
               [] Picked(a) = "ind" -> Head(a.ind_queue)

\* Mutant of Transmitted: in_req stays set after the response
TransmittedInReq(a, op) ==
    CASE op.type = "REQ" -> [a EXCEPT !.pending_req = op]
      [] op.type = "IND" -> [a EXCEPT !.pending_ind = op]
      [] OTHER -> Destroy([a EXCEPT !.owed = @ \ {op.answers}], op)

\* io_send took the op: it becomes pending, or it is done
Transmitted(a, op) ==
    CASE op.type = "REQ" -> [a EXCEPT !.pending_req = op]
      [] op.type = "IND" -> [a EXCEPT !.pending_ind = op]
      [] op.type = "RSP" ->
             Destroy([a EXCEPT !.in_req = FALSE, !.owed = @ \ {op.answers}],
                     op)
      [] OTHER -> Destroy(a, op)

Write == "OUT" \in ev /\ ev' = ev \ {"OUT"} /\ "IN" \notin ev
            /\ UNCHANGED <<rx, link, peerTx>>

WriteSend ==
    /\ Write
    /\ link = "up"
    /\ Sendable(att)
    /\ att' = Transmitted(Popped(att), NextOp(att))

\* io_send failed: the op gets an error callback and is destroyed
WriteFail ==
    /\ Write
    /\ link = "down" \/ SendMayFail
    /\ Sendable(att)
    /\ LET op == NextOp(att)
       IN  \E a \in AfterCall(Popped(att), op) :
               att' = [Destroy(a, op) EXCEPT !.lost = @ \/ op.answers # 0]

\* Nothing to send: the write handler is removed and write_watch_destroy runs
WriteIdle ==
    /\ Write
    /\ ~Sendable(att)
    /\ att' = [att EXCEPT !.writer = FALSE, !.writer_active = FALSE]

-----------------------------------------------------------------------------
\* Mutant of Disconnect: att->io is NULL only after the callbacks
DisconnectIoLast ==
    /\ "HUP" \in ev
    /\ \E C \in SUBSET Cancellable(att) :
           LET d == [DisconnectAll(IoDestroyed(att, "open"), C) EXCEPT
                         !.owed = {}]
           IN  \E a \in {d} \cup Submitted(d) :
                   att' = [a EXCEPT !.io = "null"]
    /\ ev' = {}
    /\ UNCHANGED <<link, rx, peerTx>>

\* disconnect_cb. Its callbacks cancel what they may, and they may send: then
\* att->io is NULL and bt_att_send returns 0.
Disconnect ==
    /\ "HUP" \in ev
    /\ \E C \in SUBSET Cancellable(att) :
           LET d == [DisconnectAll(IoDestroyed(att, "null"), C) EXCEPT
                         !.owed = {}]
           IN  att' \in {d} \cup Submitted(d)
    /\ ev' = {}
    /\ UNCHANGED <<link, rx, peerTx>>

\* timeout_cb of the pending request or indication, 30 s after it was sent
TimeoutReq ==
    /\ Idle
    /\ att.pending_req # None
    /\ att' = [Destroy(att, att.pending_req) EXCEPT !.pending_req = None]
    /\ link' = "down"
    /\ UNCHANGED <<ev, rx, peerTx>>

TimeoutInd ==
    /\ Idle
    /\ att.pending_ind # None
    /\ att' = [Destroy(att, att.pending_ind) EXCEPT !.pending_ind = None]
    /\ link' = "down"
    /\ UNCHANGED <<ev, rx, peerTx>>

\* The upper layer calls bt_att_send, bt_att_cancel or bt_att_cancel_all
UserCall ==
    /\ Idle
    /\ att.io = "open"
    /\ att' \in Submitted(att) \cup Cancelled(att) \cup {CancelAll(att)}
    /\ UNCHANGED <<ev, link, rx, peerTx>>

\* Mutant of Respond: the handler may answer again
RespondAgain ==
    /\ Idle
    /\ att.io # "freed"
    /\ \E r \in att.working : att' = Send(att, "RSP", r)
    /\ UNCHANGED <<ev, link, rx, peerTx>>

\* A handler that returned without an answer answers. Once the bearer is
\* disconnected bt_att_send returns 0 and the answer is gone.
Respond ==
    /\ Idle
    /\ att.io # "freed"
    /\ \E r \in att.working :
           att' = Send([att EXCEPT !.working = @ \ {r}], "RSP", r)
    /\ UNCHANGED <<ev, link, rx, peerTx>>

\* The last bt_att_unref: bt_att_cancel_all, then bt_att_free
Unref ==
    /\ Idle
    /\ att.io # "freed"
    /\ att' = LET a == CancelAll(att)
              IN  [IoDestroyed(a, "freed") EXCEPT
                      !.pending_req = None, !.pending_ind = None, !.owed = {}]
    /\ UNCHANGED <<ev, link, rx, peerTx>>

\* The peer (external)
PeerSend ==
    /\ link = "up"
    /\ att.io = "open"
    /\ peerTx < MaxRx
    /\ \E p \in PeerPdus : rx' = Append(rx, p)
    /\ peerTx' = peerTx + 1
    /\ UNCHANGED <<att, ev, link>>

PeerLeave ==
    /\ link = "up"
    /\ link' = "down"
    /\ UNCHANGED <<att, ev, rx, peerTx>>

Reading == \/ ReadNothing \/ ReadUnexpected \/ ReadRetry \/ ReadRsp \/ ReadConf
           \/ ReadReq \/ ReadSecondReq \/ ReadCmd \/ ReadUnhandled
Writing == WriteSend \/ WriteFail \/ WriteIdle

Next ==
    \/ \E writable \in BOOLEAN : Poll(writable)
    \/ Reading \/ Writing \/ Disconnect \/ TimeoutReq \/ TimeoutInd
    \/ UserCall \/ Respond \/ Unref \/ PeerSend \/ PeerLeave

Spec == Init /\ [][Next]_vars

(* The loop is not starved and the socket does not stay full for ever;      *)
(* timers expire; a handler that deferred its answer gives it in the end.   *)
Fairness ==
    /\ WF_vars(Poll(TRUE))
    /\ WF_vars(Reading)
    /\ WF_vars(Writing)
    /\ WF_vars(Disconnect)
    /\ WF_vars(TimeoutReq)
    /\ WF_vars(TimeoutInd)
    /\ WF_vars(Respond)

FairSpec == Spec /\ Fairness

-----------------------------------------------------------------------------
(* Properties                                                               *)

TypeOK ==
    /\ att \in Att
    /\ ev \in SUBSET {"HUP", "IN", "OUT"}
    /\ link \in {"up", "down"}
    /\ rx \in Seq(Pdu)
    /\ peerTx \in Len(rx) .. MaxRx

Held(a) == Queued(a) \cup Pending(a)

\* Every op the bearer accepted has its destroy hook run once, its callback at
\* most once and never after the hook, whatever mix of send, response, cancel,
\* timeout, write failure, disconnection and release ends it; and no op is
\* forgotten: a hook not run yet belongs to an op still queued or pending.
HooksRunOnce ==
    \A i \in Ids :
        /\ att.fate[i] \notin {"called", "twice"}
        /\ att.fate[i] = "unused" <=> i >= att.next_send_id
        /\ att.fate[i] = "open" <=> \E op \in Held(att) : op.id = i /\ op.hooked

Increasing(q) == \A j, k \in DOMAIN q : j < k => q[j].id < q[k].id

\* Each queue holds the ops of its types in the order they were submitted, and
\* the pending request and indication are older than those queued behind them:
\* a retried request (handle_error_rsp) does not fall behind younger ones.
SendOrder ==
    /\ Increasing(att.req_queue)
    /\ Increasing(att.ind_queue)
    /\ Increasing(att.write_queue)
    /\ att.pending_req # None =>
           \A op \in ToSet(att.req_queue) : att.pending_req.id < op.id
    /\ att.pending_ind # None =>
           \A op \in ToSet(att.ind_queue) : att.pending_ind.id < op.id

\* No lost wakeup: while the link is up an op that could be sent has its write
\* handler set, so that epoll reports the socket writable (wakeup_writer is
\* called wherever an op, or the room for one, appears); and writer_active,
\* which it trusts, says exactly whether the io has that handler.
NoLostWakeup ==
    /\ att.io = "open" /\ link = "up" /\ Sendable(att) => att.writer
    /\ att.writer_active <=> att.writer

\* in_req is set exactly while a request was taken and its answer has not been
\* sent, and there is never a second such request.
InReqMeansOwed ==
    att.io = "open" => /\ att.in_req <=> att.owed # {}
                       /\ \A r, s \in att.owed : r = s

\* The comment of can_write_data: "Set in_req to false to indicate that no
\* request is pending" (att.c:487): with in_req clear no request is unanswered.
InReqClearMeansAnswered == att.io = "open" /\ ~att.in_req => att.owed = {}

\* While an answer is owed exactly one thing can bring it: a handler still at
\* work or one queued response; unless writev failed for it or it was cancelled.
AnswerOnTheWay ==
    att.io = "open" /\ ~att.lost =>
        \A r \in Requests :
            LET brings == {k \in DOMAIN att.write_queue :
                               att.write_queue[k].answers = r}
            IN  /\ r \in att.owed <=> r \in att.working \/ brings # {}
                /\ r \in att.working => brings = {}
                /\ \A j, k \in brings : j = k

\* Once disconnect_cb or bt_att_free is done nothing is left whose callback
\* could still run into the upper layer, and no handler is armed.
NothingAfterDisconnect ==
    att.io # "open" => /\ Held(att) = {}
                       /\ ~att.writer /\ ~att.reader

\* A request or indication has one slot each: it is sent only when the earlier
\* one of its kind ended, and a request comes back to the queue only to be sent
\* again at a strictly higher security level (so at most twice).
OneOutstanding ==
    [][/\ att'.pending_req # None /\ att'.pending_req # att.pending_req
              /\ att.pending_req # None
          => att'.pending_req = Stripped(att.pending_req)
       /\ att'.pending_ind # None /\ att'.pending_ind # att.pending_ind
              /\ att.pending_ind # None
          => att'.pending_ind = Stripped(att.pending_ind)
       /\ att.pending_req \in ToSet(att'.req_queue) => att'.sec > att.sec]_vars

\* Every op submitted is settled in the end: sent, answered, cancelled, timed
\* out or ended by a disconnection. A peer that never answers cannot hold it.
OpsSettle == \A i \in Ids : att.fate[i] = "open" ~> att.fate[i] # "open"

\* Every request taken is answered, unless the bearer ends or writev failed.
RequestsAnswered ==
    \A r \in Requests :
        r \in att.owed ~> (r \notin att.owed \/ att.lost)

=============================================================================
