---------------------------- MODULE ClockServer ----------------------------
(***************************************************************************)
(* The clock protocol: clock_command of src/commands.c and the callbacks   *)
(* of src/server.c that the attributes of the clock services run, over one *)
(* connection after another.                                               *)
(*                                                                         *)
(* The clock, a GATT client, writes commands to one characteristic and is  *)
(* answered by notifications of another.  Below them is the bt_att of the  *)
(* connection, seen here as its write_queue: what is queued is sent in     *)
(* order, or lost with the connection.                                     *)
(***************************************************************************)
EXTENDS Integers, Sequences, SequencesExt, FiniteSets

CONSTANTS
    Started,    \* TRUE if the daemon was started with -s hh:mm:ss
    PollMod,    \* gPollCount is a uint16_t: 2^16
    MaxWrites,  \* bound: writes of a client in one connection
    Zone,       \* tm_gmtoff in every second: it falls when daylight saving ends
    Seconds,    \* bound: how long the clock of the host runs
    Fractions   \* the values of tv_nsec

ASSUME StartedAssumption == Started \in BOOLEAN
ASSUME BoundsAssumption ==
    PollMod \in Nat \ {0} /\ MaxWrites \in Nat /\ Seconds \in Nat
ASSUME ClockAssumption ==
    /\ Zone \in [0 .. Seconds -> Int]
    /\ \A f \in Fractions : f \in Nat /\ f < 1000000000

\* messages.h
CLK_REQ_FACE_TIME == 1
CLK_REQ_TIME == 2
CLK_ACCEPT_STATUS == 3

\* What a client writes: the attribute, the first byte of the value, the
\* length, the offset (not 0 only by an Execute Write), and whether it is a
\* request, which is answered, or a command. The lengths stand for: none, one
\* byte, the two of a descriptor, more than the characteristic takes.
Value == [target : {"svc_ccc", "clock_ccc", "clock"}, byte : 0 .. 4,
          len : {0, 1, 2, 101}, offset : {0, 1}, request : BOOLEAN]

\* What the server sends; n is the number of the write that caused it, and for
\* a time `at' is the second whose offset it has (history)
Pdu == [type : {"face", "time", "done", "rsp", "err"}, n : 1 .. MaxWrites,
        data : Int, at : 0 .. Seconds]

VARIABLES
    srv,     \* the daemon
    up,      \* a client is connected
    inbox,   \* what the client has received in this connection
    writes,  \* how many writes it has made
    now,     \* the clock of the host
    base     \* history: gPollCount when the client came

vars == <<srv, up, inbox, writes, now, base>>

NoFlags == [f \in {"svc_ccc", "clock_ccc"} |-> FALSE]

Server == [proc : {"running", "failed"},  \* failed: exit(EXIT_FAILURE)
           face : BOOLEAN,                \* gFaceTime is not 0
           polls : 0 .. PollMod - 1,      \* gPollCount
           flags : [{"svc_ccc", "clock_ccc"} -> BOOLEAN],
               \* svc_chngd_enabled and clock_read_data_notify
           out : Seq(Pdu),                \* write_queue of the bt_att
           spent : BOOLEAN]               \* history: a status was accepted

\* CLOCK_REALTIME, and what time(NULL) returns: the time of the last tick of the
\* kernel, which just after the start of a second is still in the one before
Times == {t \in [sec : 0 .. Seconds, nsec : Fractions, tt : 0 .. Seconds] :
              t.tt \in {t.sec - 1, t.sec}}

Init ==
    /\ srv = [proc |-> "running", face |-> Started, polls |-> 0,
              flags |-> NoFlags, out |-> <<>>, spent |-> FALSE]
    /\ up = FALSE
    /\ inbox = <<>> /\ writes = 0
    /\ now \in {t \in Times : t.sec = 0}
    /\ base = 0

-----------------------------------------------------------------------------
(* Commands, as maps from a server to a server                              *)

\* Mutant of GetTime: thousandths of a second added to 256ths
GetTimeMillis(t) == t.sec * 256 + t.nsec \div 1000000 + Zone[t.tt] * 256

\* get_time: seconds with eight bits of fraction, local time. localtime_r gives
\* the offset of the second time(NULL) returned. The code's
\* (tv_nsec << 8) / 1000000000 is tv_nsec / 3906250.
GetTime(t) == t.sec * 256 + t.nsec \div 3906250 + Zone[t.tt] * 256

Sent(s, type, data) ==
    [s EXCEPT !.out = Append(@, [type |-> type, n |-> writes + 1, data |-> data,
                                 at |-> IF type = "time" THEN now.tt ELSE 0])]

\* CLK_REQ_FACE_TIME. Without a face time the process exits.
FaceRequest(s) == IF s.face THEN Sent(s, "face", 0)
                  ELSE [s EXCEPT !.proc = "failed"]

\* Mutants of Status: gPollCount is wider than 16 bits, stays at its limit
StatusWide(s) ==
    Sent([s EXCEPT !.polls = @ + 1, !.face = FALSE, !.spent = TRUE], "done", 0)
StatusSaturated(s) ==
    Sent([s EXCEPT !.polls = IF @ < PollMod - 1 THEN @ + 1 ELSE @,
                   !.face = FALSE, !.spent = TRUE], "done", 0)

\* CLK_ACCEPT_STATUS. What the status says only reaches the log.
Status(s) == Sent([s EXCEPT !.polls = (@ + 1) % PollMod,
                            !.face = FALSE, !.spent = TRUE], "done", 0)

\* Mutant of Command: the face time is given out once
CommandOnce(s, byte) ==
    CASE byte = CLK_REQ_FACE_TIME -> [FaceRequest(s) EXCEPT !.face = FALSE]
      [] byte = CLK_REQ_TIME -> Sent(s, "time", GetTime(now))
      [] byte = CLK_ACCEPT_STATUS -> Status(s)
      [] OTHER -> s

\* clock_command. clock_read_data_cb notifies whether the client asked for
\* notifications or not.
Command(s, byte) ==
    CASE byte = CLK_REQ_FACE_TIME -> FaceRequest(s)
      [] byte = CLK_REQ_TIME -> Sent(s, "time", GetTime(now))
      [] byte = CLK_ACCEPT_STATUS -> Status(s)
      [] OTHER -> s

-----------------------------------------------------------------------------
(* Writes *)

\* gatt_db_attribute_write_result: gatt-server.c answers a request, and exit
\* answers nothing
Answered(s, v, type) ==
    IF v.request /\ s.proc = "running" THEN Sent(s, type, 0) ELSE s

\* gatt_svc_chngd_ccc_write_cb and clock_read_data_ccc_write_cb: `on' is the
\* byte that turns the flag on, 0 turns it off
CccWrite(s, v, on) ==
    IF v.len = 2 /\ v.offset = 0 /\ v.byte \in {0, on}
    THEN Answered([s EXCEPT !.flags[v.target] = (v.byte = on)], v, "rsp")
    ELSE Answered(s, v, "err")

\* Mutant of ClockWrite: the write is answered before the command is executed
ClockWriteEarly(s, v) ==
    IF v.len \in 1 .. 100 /\ v.offset = 0
    THEN Command(Answered(s, v, "rsp"), v.byte)
    ELSE Answered(s, v, "err")

\* clock_write_data_write_cb
ClockWrite(s, v) ==
    IF v.len \in 1 .. 100 /\ v.offset = 0
    THEN Answered(Command(s, v.byte), v, "rsp")
    ELSE Answered(s, v, "err")

Written(s, v) == CASE v.target = "svc_ccc" -> CccWrite(s, v, 2)
                   [] v.target = "clock_ccc" -> CccWrite(s, v, 1)
                   [] v.target = "clock" -> ClockWrite(s, v)

-----------------------------------------------------------------------------
Running == srv.proc = "running"

\* A client connects. server_create makes a server with both flags clear.
Connect ==
    /\ Running /\ ~up
    /\ up' = TRUE
    /\ srv' = [srv EXCEPT !.flags = NoFlags]
    /\ inbox' = <<>> /\ writes' = 0
    /\ base' = srv.polls
    /\ UNCHANGED <<now>>

\* A write of the client reaches its callback. The client makes a request
\* when the one before was answered; a command needs no such thing.
Answers(q) == SelectSeq(q, LAMBDA p : p.type \in {"rsp", "err"})

Write ==
    /\ Running /\ up
    /\ writes < MaxWrites
    /\ \E v \in Value :
           /\ v.offset # 0 => v.request
           /\ v.request => Answers(srv.out) = <<>>
           /\ srv' = Written(srv, v)
    /\ writes' = writes + 1
    /\ UNCHANGED <<up, inbox, now, base>>

\* can_write_data sends the head of the queue and the client receives it
Transmit ==
    /\ Running /\ up
    /\ srv.out # <<>>
    /\ srv' = [srv EXCEPT !.out = Tail(@)]
    /\ inbox' = Append(inbox, Head(srv.out))
    /\ UNCHANGED <<up, writes, now, base>>

\* The connection is lost, and what was queued with it
Drop ==
    /\ Running /\ up
    /\ up' = FALSE
    /\ srv' = [srv EXCEPT !.out = <<>>]
    /\ UNCHANGED <<inbox, writes, now, base>>

\* The clock of the host goes on
Later(s, t) ==
    /\ s.sec < t.sec \/ (s.sec = t.sec /\ s.nsec < t.nsec)
    /\ s.tt <= t.tt

Tick ==
    /\ now' \in {t \in Times : Later(now, t)}
    /\ UNCHANGED <<srv, up, inbox, writes, base>>

Next == Connect \/ Write \/ Transmit \/ Drop \/ Tick

Spec == Init /\ [][Next]_vars

-----------------------------------------------------------------------------
(* Properties *)

TypeOK ==
    /\ srv \in Server
    /\ up \in BOOLEAN
    /\ inbox \in Seq(Pdu)
    /\ writes \in 0 .. MaxWrites
    /\ now \in Times
    /\ base \in 0 .. PollMod - 1

\* What the server sent in this connection, received or not yet
Stream == inbox \o srv.out

\* The client sees the notification a command causes before the answer to the
\* write that carried it, and the answers of an earlier write before those of a
\* later one: with the answer in hand it has the time it asked for.
AnswerComesLast ==
    up => \A j, k \in DOMAIN Stream : j < k =>
              /\ Stream[j].n <= Stream[k].n
              /\ Stream[j].n = Stream[k].n =>
                     /\ Stream[j].type \notin {"rsp", "err"}
                     /\ Stream[k].type = "rsp"

\* A time less its offset. The times are local time: when the offset falls, at
\* the end of daylight saving, they fall with it.
Universal(p) == p.data - Zone[p.at] * 256

\* The times a client is sent go back only with the offset of the zone, and by
\* no more than it fell from the one time to the other: not over a carry of the
\* fraction into the seconds, and not when time(NULL) lags behind the clock.
TimesGoForward ==
    up => \A j, k \in DOMAIN Stream :
              /\ j < k /\ Stream[j].type = "time" /\ Stream[k].type = "time"
              => /\ Stream[j].at <= Stream[k].at
                 /\ Universal(Stream[j]) <= Universal(Stream[k])

\* gPollCount counts the status messages and nothing else, over its limit: in
\* a connection it grew by the number of SRVR_ACCEPT_DONE that were sent.
EveryPollCounted ==
    up => LET done == {k \in DOMAIN Stream : Stream[k].type = "done"}
          IN  srv.polls = (base + Cardinality(done)) % PollMod

\* A daemon started with a face time gives it out as long as no status was
\* accepted, to any number of clients, asked any number of times, and exits for
\* the lack of one only afterwards.
FaceUntilStatus ==
    Started /\ ~srv.spent => srv.face /\ srv.proc = "running"
=============================================================================
