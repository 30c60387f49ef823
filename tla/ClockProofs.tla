---------------------------- MODULE ClockProofs ----------------------------
(***************************************************************************)
(* Proofs about ClockServer: types, the face time, the order of the times  *)
(* a client is sent, the place of the answers in the stream, and the count *)
(* of polls. A write is a composition of Sent, the commands and Answered;  *)
(* each has a lemma that says what it preserves.                           *)
(***************************************************************************)
EXTENDS ClockServer, TLAPS, SequenceTheorems, FiniteSetTheorems

\* A write the client may make, at a time of the host
Numbered == writes \in 0 .. MaxWrites - 1 /\ now \in Times

PduType == {"face", "time", "done", "rsp", "err"}

-----------------------------------------------------------------------------
(* get_time *)

\* The time less the offset it has, and its eight bits of fraction
Host(t) == GetTime(t) - Zone[t.tt] * 256
Bits(t) == t.nsec \div 3906250

LEMMA TimesType ==
    ASSUME NEW t \in Times
    PROVE  /\ t.sec \in Nat /\ t.tt \in 0 .. Seconds /\ t.nsec \in Fractions
           /\ Zone[t.tt] \in Int
<1>1. /\ t.sec \in 0 .. Seconds /\ t.tt \in 0 .. Seconds
      /\ t.nsec \in Fractions
  BY SMT DEF Times
<1>2. Zone \in [0 .. Seconds -> Int]
  BY ClockAssumption, SMT
<1> QED
  BY <1>1, <1>2, BoundsAssumption, SMT

LEMMA GetTimeType ==
    ASSUME NEW t \in Times
    PROVE  /\ GetTime(t) \in Int /\ Host(t) \in Int
           /\ Host(t) = t.sec * 256 + Bits(t)
<1> DEFINE z == Zone[t.tt]
           f == Bits(t)
           c == t.sec
<1>1. t.nsec \in Nat
  BY TimesType, ClockAssumption, SMT
<1>2. z \in Int /\ f \in Int /\ c \in Int
  BY <1>1, TimesType, SMT DEF Bits
<1>3. GetTime(t) = c * 256 + f + z * 256 /\ Host(t) = GetTime(t) - z * 256
  BY SMT DEF GetTime, Host, Bits
<1> HIDE DEF z, f, c
<1>4. GetTime(t) \in Int /\ Host(t) = c * 256 + f /\ Host(t) \in Int
  BY <1>2, <1>3, SMT
<1> QED
  BY <1>4, Zenon DEF c, f

(* get_time goes back with the clock of the host only when the offset of   *)
(* the zone falls, and by no more than it falls: less the offset the time  *)
(* never goes back, as the eight bits of fraction stay below a second,     *)
(* whatever the nanoseconds.                                               *)
THEOREM GetTimeMonotone ==
    ASSUME NEW s \in Times, NEW t \in Times, Later(s, t)
    PROVE  /\ GetTime(s) - Zone[s.tt] * 256 <= GetTime(t) - Zone[t.tt] * 256
           /\ Zone[s.tt] <= Zone[t.tt] => GetTime(s) <= GetTime(t)
<1>1. /\ s.sec \in Nat /\ t.sec \in Nat
      /\ s.nsec \in Fractions /\ t.nsec \in Fractions
  BY TimesType, SMT
<1>2. /\ Bits(s) \in 0 .. 255 /\ Bits(t) \in 0 .. 255
      /\ s.nsec < t.nsec => Bits(s) <= Bits(t)
  <2>1. /\ s.nsec \in Nat /\ s.nsec < 1000000000
        /\ t.nsec \in Nat /\ t.nsec < 1000000000
    BY <1>1, ClockAssumption, SMT
  <2> DEFINE x == s.nsec
             y == t.nsec
  <2>2. /\ x \in Nat /\ x < 1000000000 /\ y \in Nat /\ y < 1000000000
    BY <2>1, SMT
  <2>3. Bits(s) = x \div 3906250 /\ Bits(t) = y \div 3906250
    BY SMT DEF Bits
  <2> HIDE DEF x, y
  <2>4. x \div 3906250 \in 0 .. 255 /\ y \div 3906250 \in 0 .. 255
    BY <2>2, SMT
  <2>5. x < y => x \div 3906250 <= y \div 3906250
    BY <2>2, SMT
  <2> QED
    BY <2>3, <2>4, <2>5, SMT DEF x, y
<1>3. Host(s) = s.sec * 256 + Bits(s) /\ Host(t) = t.sec * 256 + Bits(t)
  BY GetTimeType, Zenon
<1>4. Host(s) <= Host(t)
  <2>1. PICK x \in 0 .. 255, y \in 0 .. 255 : x = Bits(s) /\ y = Bits(t)
    BY <1>2, Zenon
  <2>2. CASE s.sec < t.sec
    <3>1. s.sec * 256 + x <= t.sec * 256 + y
      BY <1>1, <2>1, <2>2, SMT
    <3> QED
      BY <1>3, <2>1, <3>1, SMT
  <2>3. CASE s.sec = t.sec /\ s.nsec < t.nsec
    <3>1. t.sec * 256 + x <= t.sec * 256 + y
      BY <1>1, <1>2, <2>1, <2>3, SMT
    <3> QED
      BY <1>3, <2>1, <2>3, <3>1, SMT
  <2> QED
    BY <2>2, <2>3, SMT DEF Later
<1>5. /\ GetTime(s) \in Int /\ GetTime(t) \in Int
      /\ Zone[s.tt] \in Int /\ Zone[t.tt] \in Int
  BY GetTimeType, TimesType, SMT
<1>6. GetTime(s) - Zone[s.tt] * 256 <= GetTime(t) - Zone[t.tt] * 256
  BY <1>4, Zenon DEF Host
<1> QED
  BY <1>5, <1>6, SMT

-----------------------------------------------------------------------------
(* Types *)

LEMMA SentType ==
    ASSUME NEW s \in Server, NEW type \in PduType, NEW data \in Int, Numbered
    PROVE  /\ Sent(s, type, data) \in Server
           /\ Sent(s, type, data).proc = s.proc
           /\ Sent(s, type, data).face = s.face
           /\ Sent(s, type, data).spent = s.spent
<1> DEFINE p == [type |-> type, n |-> writes + 1, data |-> data,
                 at |-> IF type = "time" THEN now.tt ELSE 0]
           q == Append(s.out, p)
<1>1. p \in Pdu
  BY TimesType, BoundsAssumption DEF Numbered, Pdu, PduType
<1>2. q \in Seq(Pdu)
  BY <1>1 DEF Server
<1>3. Sent(s, type, data) = [s EXCEPT !.out = q]
  BY DEF Sent
<1> HIDE DEF q
<1>4. [s EXCEPT !.out = q] \in Server
  BY <1>2, Zenon DEF Server
<1> QED
  BY <1>3, <1>4 DEF Server

LEMMA FaceRequestType ==
    ASSUME NEW s \in Server, Numbered
    PROVE  FaceRequest(s) \in Server
<1>1. [s EXCEPT !.proc = "failed"] \in Server
  BY Zenon DEF Server
<1> QED
  BY <1>1, SentType DEF FaceRequest, PduType

LEMMA StatusType ==
    ASSUME NEW s \in Server, Numbered
    PROVE  Status(s) \in Server /\ Status(s).spent = TRUE
<1> DEFINE n == (s.polls + 1) % PollMod
           b == [s EXCEPT !.polls = n, !.face = FALSE, !.spent = TRUE]
<1>1. n \in 0 .. PollMod - 1
  BY BoundsAssumption DEF Server
<1>2. Status(s) = Sent(b, "done", 0)
  BY DEF Status
<1> HIDE DEF n
<1>3. b \in Server
  BY <1>1, Zenon DEF Server
<1>4. b.spent = TRUE
  BY DEF Server
<1> HIDE DEF b
<1>5. "done" \in PduType
  BY DEF PduType
<1>6. Status(s) \in Server /\ Status(s).spent = b.spent
  BY <1>2, <1>3, <1>5, SentType
<1> QED
  BY <1>4, <1>6

LEMMA CommandType ==
    ASSUME NEW s \in Server, NEW byte, now \in Times, Numbered
    PROVE  Command(s, byte) \in Server
<1>1. Sent(s, "time", GetTime(now)) \in Server
  BY GetTimeType, SentType DEF PduType
<1> QED
  BY <1>1, FaceRequestType, StatusType
     DEF Command, CLK_REQ_FACE_TIME, CLK_REQ_TIME, CLK_ACCEPT_STATUS

LEMMA AnsweredType ==
    ASSUME NEW s \in Server, NEW v, NEW type \in {"rsp", "err"}, Numbered
    PROVE  Answered(s, v, type) \in Server
<1>1. type \in PduType /\ 0 \in Int
  BY DEF PduType
<1>2. Sent(s, type, 0) \in Server
  BY <1>1, SentType
<1> QED
  BY <1>2, Zenon DEF Answered

LEMMA FlagsType ==
    ASSUME NEW s \in Server, NEW target \in {"svc_ccc", "clock_ccc"},
           NEW b \in BOOLEAN
    PROVE  [s EXCEPT !.flags[target] = b] \in Server
<1> DEFINE f == [s.flags EXCEPT ![target] = b]
<1>1. f \in [{"svc_ccc", "clock_ccc"} -> BOOLEAN]
  BY DEF Server
<1>2. [s EXCEPT !.flags[target] = b] = [s EXCEPT !.flags = f]
  OBVIOUS
<1> HIDE DEF f
<1> QED
  BY <1>1, <1>2, Zenon DEF Server

LEMMA CccWriteType ==
    ASSUME NEW s \in Server, NEW v \in Value, NEW on, Numbered,
           v.target \in {"svc_ccc", "clock_ccc"}
    PROVE  CccWrite(s, v, on) \in Server
<1>1. [s EXCEPT !.flags[v.target] = (v.byte = on)] \in Server
  BY FlagsType
<1> QED
  BY <1>1, AnsweredType DEF CccWrite

LEMMA WrittenType ==
    ASSUME NEW s \in Server, NEW v \in Value, now \in Times, Numbered
    PROVE  Written(s, v) \in Server
<1>1. v.target \in {"svc_ccc", "clock_ccc", "clock"}
  BY DEF Value
<1>2. CASE v.target = "clock"
  <2>1. ClockWrite(s, v) \in Server
    BY CommandType, AnsweredType DEF ClockWrite
  <2> QED
    BY <1>2, <2>1 DEF Written
<1>3. CASE v.target \in {"svc_ccc", "clock_ccc"}
  BY <1>3, CccWriteType DEF Written
<1> QED
  BY <1>1, <1>2, <1>3

LEMMA InitType == Init => TypeOK
<1> SUFFICES ASSUME Init PROVE TypeOK
  OBVIOUS
<1>1. << >> \in Seq(Pdu) /\ 0 \in 0 .. PollMod - 1 /\ 0 \in 0 .. MaxWrites
  BY BoundsAssumption
<1>2. NoFlags \in [{"svc_ccc", "clock_ccc"} -> BOOLEAN]
  BY DEF NoFlags
<1>3. srv \in Server
  BY <1>1, <1>2, StartedAssumption, Zenon DEF Init, Server
<1> QED
  BY <1>1, <1>3 DEF Init, TypeOK

LEMMA NextType == TypeOK /\ [Next]_vars => TypeOK'
<1> SUFFICES ASSUME TypeOK, [Next]_vars PROVE TypeOK'
  OBVIOUS
<1>0. srv \in Server /\ now \in Times
  BY DEF TypeOK
<1>1. CASE Connect
  <2>1. NoFlags \in [{"svc_ccc", "clock_ccc"} -> BOOLEAN]
    BY DEF NoFlags
  <2>2. [srv EXCEPT !.flags = NoFlags] \in Server
    BY <1>0, <2>1, Zenon DEF Server
  <2>3. srv.polls \in 0 .. PollMod - 1
    BY <1>0 DEF Server
  <2> QED
    BY <1>1, <2>2, <2>3, BoundsAssumption DEF Connect, TypeOK
<1>2. CASE Write
  <2>1. PICK v \in Value : srv' = Written(srv, v)
    BY <1>2 DEF Write
  <2>2. Numbered /\ writes' \in 0 .. MaxWrites
    BY <1>2, BoundsAssumption DEF Write, TypeOK, Numbered
  <2>3. srv' \in Server
    BY <1>0, <2>1, <2>2, WrittenType
  <2> QED
    BY <1>2, <2>2, <2>3 DEF Write, TypeOK
<1>3. CASE Transmit
  <2>1. srv.out \in Seq(Pdu) /\ srv.out # << >> /\ inbox \in Seq(Pdu)
    BY <1>0, <1>3 DEF Transmit, TypeOK, Server
  <2>2. Tail(srv.out) \in Seq(Pdu) /\ Head(srv.out) \in Pdu
    BY <2>1, HeadTailProperties
  <2> DEFINE q == Tail(srv.out)
  <2>3. [srv EXCEPT !.out = q] \in Server
    <3> HIDE DEF q
    <3> QED
      BY <1>0, <2>2, Zenon DEF Server, q
  <2>4. Append(inbox, Head(srv.out)) \in Seq(Pdu)
    BY <2>1, <2>2
  <2> QED
    BY <1>3, <2>3, <2>4 DEF Transmit, TypeOK
<1>4. CASE Drop
  <2>1. << >> \in Seq(Pdu)
    OBVIOUS
  <2>2. [srv EXCEPT !.out = << >>] \in Server
    BY <1>0, <2>1, Zenon DEF Server
  <2> QED
    BY <1>4, <2>2 DEF Drop, TypeOK
<1>5. CASE Tick
  BY <1>5 DEF Tick, TypeOK
<1>6. CASE UNCHANGED vars
  BY <1>6 DEF vars, TypeOK
<1> QED
  BY <1>1, <1>2, <1>3, <1>4, <1>5, <1>6 DEF Next

(* The daemon stays well typed through any series of clients; gPollCount   *)
(* stays within 16 bits.                                                   *)
THEOREM TypeCorrect == Spec => []TypeOK
<1>1. Init => TypeOK
  BY InitType
<1>2. TypeOK /\ [Next]_vars => TypeOK'
  BY NextType
<1> QED
  BY <1>1, <1>2, PTL DEF Spec

-----------------------------------------------------------------------------
(* The face time *)

FaceKept(s) == Started /\ ~s.spent => s.face /\ s.proc = "running"

LEMMA SentFace ==
    ASSUME NEW s \in Server, NEW type, NEW data, FaceKept(s)
    PROVE  FaceKept(Sent(s, type, data))
BY DEF Sent, Server, FaceKept

LEMMA WrittenFace ==
    ASSUME NEW s \in Server, NEW v \in Value, now \in Times, Numbered,
           FaceKept(s), s.proc = "running"
    PROVE  FaceKept(Written(s, v))
<1>1. ASSUME NEW t \in Server, FaceKept(t), NEW type
      PROVE  FaceKept(Answered(t, v, type))
  BY <1>1, SentFace DEF Answered
<1>2. v.target \in {"svc_ccc", "clock_ccc", "clock"}
  BY DEF Value
<1>3. FaceKept(Command(s, v.byte))
  <2>1. FaceKept(FaceRequest(s))
    <3>1. FaceKept([s EXCEPT !.proc = "failed"]) \/ s.face
      BY DEF FaceKept, Server
    <3> QED
      BY <3>1, SentFace DEF FaceRequest
  <2>2. FaceKept(Status(s))
    BY StatusType DEF FaceKept
  <2>3. FaceKept(Sent(s, "time", GetTime(now)))
    BY SentFace
  <2> QED
    BY <2>1, <2>2, <2>3
       DEF Command, CLK_REQ_FACE_TIME, CLK_REQ_TIME, CLK_ACCEPT_STATUS
<1>4. CASE v.target = "clock"
  <2>1. FaceKept(ClockWrite(s, v))
    BY <1>1, <1>3, CommandType DEF ClockWrite
  <2> QED
    BY <1>4, <2>1 DEF Written
<1>5. CASE v.target \in {"svc_ccc", "clock_ccc"}
  <2> DEFINE f(on) == [s EXCEPT !.flags[v.target] = (v.byte = on)]
  <2>1. ASSUME NEW on PROVE f(on) \in Server /\ FaceKept(f(on))
    BY <1>5, FlagsType DEF FaceKept, Server
  <2> HIDE DEF f
  <2>2. ASSUME NEW on PROVE FaceKept(CccWrite(s, v, on))
    BY <1>1, <2>1 DEF CccWrite, f
  <2> QED
    BY <1>5, <2>2 DEF Written
<1> QED
  BY <1>2, <1>4, <1>5

(* A daemon started with a face time keeps it, and does not exit for the   *)
(* lack of one, until a status was accepted: clock_command clears          *)
(* gFaceTime nowhere else.                                                 *)
THEOREM FaceKeptUntilStatus == Spec => []FaceUntilStatus
<1>1. Init => FaceUntilStatus
  BY DEF Init, FaceUntilStatus
<1>2. TypeOK /\ FaceUntilStatus /\ [Next]_vars => FaceUntilStatus'
  <2> SUFFICES ASSUME TypeOK, FaceUntilStatus, [Next]_vars
               PROVE  FaceUntilStatus'
    OBVIOUS
  <2>0. srv \in Server /\ now \in Times /\ FaceKept(srv)
    BY DEF TypeOK, FaceUntilStatus, FaceKept
  <2>1. CASE Write
    <3>1. PICK v \in Value : srv' = Written(srv, v)
      BY <2>1 DEF Write
    <3>2. Numbered /\ srv.proc = "running"
      BY <2>1, BoundsAssumption DEF Write, TypeOK, Numbered, Running
    <3>3. FaceKept(srv')
      BY <2>0, <3>1, <3>2, WrittenFace
    <3> QED
      BY <3>3 DEF FaceKept, FaceUntilStatus
  <2>2. CASE Connect \/ Transmit \/ Drop
    <3>1. srv'.face = srv.face /\ srv'.spent = srv.spent
          /\ srv'.proc = srv.proc
      BY <2>0, <2>2 DEF Connect, Transmit, Drop, Server
    <3> QED
      BY <3>1 DEF FaceUntilStatus
  <2>3. CASE Tick \/ UNCHANGED vars
    BY <2>3 DEF Tick, vars, FaceUntilStatus
  <2> QED
    BY <2>1, <2>2, <2>3 DEF Next
<1> QED
  BY <1>1, <1>2, TypeCorrect, PTL DEF Spec

-----------------------------------------------------------------------------
(* The times a client is sent *)

\* The strengthening: no time that was sent, received or not yet, is ahead of
\* the clock of the host; without a client nothing waits to be sent.
NotAfter(p, at, time) == p.at <= at /\ Universal(p) <= time

InOrder(q) ==
    \A j, k \in DOMAIN q :
        j < k /\ q[j].type = "time" /\ q[k].type = "time"
        => NotAfter(q[j], q[k].at, Universal(q[k]))

Past(q) ==
    \A k \in DOMAIN q :
        q[k].type = "time" => NotAfter(q[k], now.tt, Host(now))

\* A time that is sent now
Current(p) == p.at = now.tt /\ Universal(p) = Host(now)

Timely(s) == InOrder(inbox \o s.out) /\ Past(inbox \o s.out)

OrderInv == IF up THEN Timely(srv) ELSE srv.out = << >>

LEMMA StreamSent ==
    ASSUME NEW q \in Seq(Pdu), NEW r \in Seq(Pdu), NEW p \in Pdu
    PROVE  q \o Append(r, p) = Append(q \o r, p)
OBVIOUS

LEMMA StreamTransmitted ==
    ASSUME NEW q \in Seq(Pdu), NEW r \in Seq(Pdu), r # << >>
    PROVE  Append(q, Head(r)) \o Tail(r) = q \o r
<1> DEFINE h == Append(q, Head(r))
           a == h \o Tail(r)
           b == q \o r
<1>1. /\ h \in Seq(Pdu) /\ Len(h) = Len(q) + 1
      /\ h[Len(q) + 1] = r[1]
      /\ \A i \in 1 .. Len(q) : h[i] = q[i]
  <2>1. Head(r) \in Pdu /\ Head(r) = r[1]
    BY HeadTailProperties
  <2> QED
    BY <2>1, AppendProperties
<1>2. /\ Tail(r) \in Seq(Pdu) /\ Len(Tail(r)) = Len(r) - 1
      /\ \A i \in 1 .. Len(Tail(r)) : Tail(r)[i] = r[i + 1]
  BY HeadTailProperties
<1>3. Len(q) \in Nat /\ Len(r) \in Nat
  BY LenProperties
<1> HIDE DEF h
<1>4. /\ a \in Seq(Pdu)
      /\ Len(a) = Len(h) + Len(Tail(r))
      /\ \A i \in 1 .. Len(h) + Len(Tail(r)) :
             a[i] = IF i <= Len(h) THEN h[i] ELSE Tail(r)[i - Len(h)]
  BY <1>1, <1>2, ConcatProperties
<1>5. /\ b \in Seq(Pdu)
      /\ Len(b) = Len(q) + Len(r)
      /\ \A i \in 1 .. Len(q) + Len(r) :
             b[i] = IF i <= Len(q) THEN q[i] ELSE r[i - Len(q)]
  BY ConcatProperties
<1> HIDE DEF a, b
<1>6. Len(a) = Len(b)
  BY <1>1, <1>2, <1>3, <1>4, <1>5
<1>7. ASSUME NEW i \in 1 .. Len(a) PROVE a[i] = b[i]
  <2>0. /\ i \in 1 .. Len(h) + Len(Tail(r)) /\ i \in 1 .. Len(q) + Len(r)
        /\ i \in Nat
    BY <1>3, <1>4, <1>5, <1>6
  <2>1. CASE i <= Len(q)
    <3>1. i \in 1 .. Len(q) /\ i <= Len(h)
      BY <1>1, <1>3, <2>0, <2>1
    <3>2. a[i] = h[i] /\ b[i] = q[i]
      BY <1>4, <1>5, <2>0, <2>1, <3>1
    <3> QED
      BY <1>1, <3>1, <3>2
  <2>2. CASE i = Len(q) + 1
    <3>1. i <= Len(h) /\ ~(i <= Len(q)) /\ i - Len(q) = 1
      BY <1>1, <1>3, <2>2
    <3>2. a[i] = h[i] /\ b[i] = r[i - Len(q)]
      BY <1>4, <1>5, <2>0, <3>1
    <3> QED
      BY <1>1, <2>2, <3>1, <3>2
  <2>3. CASE i > Len(q) + 1
    <3>1. i - Len(h) \in 1 .. Len(Tail(r)) /\ i - Len(h) + 1 = i - Len(q)
      BY <1>1, <1>2, <1>3, <1>4, <2>3
    <3>2. Tail(r)[i - Len(h)] = r[i - Len(q)]
      <4> DEFINE k == i - Len(h)
      <4>1. k \in 1 .. Len(Tail(r)) /\ k + 1 = i - Len(q)
        BY <3>1
      <4> HIDE DEF k
      <4>2. Tail(r)[k] = r[k + 1]
        BY <1>2, <4>1
      <4> QED
        BY <4>1, <4>2 DEF k
    <3>4. ~(i <= Len(h))
      BY <1>1, <1>3, <2>0, <2>3
    <3>5. a[i] = Tail(r)[i - Len(h)]
      BY <1>4, <2>0, <3>4
    <3>3. b[i] = r[i - Len(q)]
      BY <1>3, <1>4, <1>5, <1>6, <2>3
    <3> QED
      BY <3>2, <3>3, <3>5
  <2> QED
    BY <1>3, <2>1, <2>2, <2>3
<1>8. a = b
  BY <1>4, <1>5, <1>6, <1>7, SeqEqual
<1> QED
  BY <1>8 DEF a, b, h

LEMMA AppendTimely ==
    ASSUME NEW q \in Seq(Pdu), NEW p \in Pdu, now \in Times,
           InOrder(q), Past(q), p.type = "time" => Current(p)
    PROVE  InOrder(Append(q, p)) /\ Past(Append(q, p))
<1> DEFINE m == Len(q) + 1
           a == Append(q, p)
<1>1. /\ DOMAIN a = 1 .. m /\ DOMAIN q = 1 .. Len(q) /\ Len(q) \in Nat
      /\ a[m] = p
      /\ \A k \in 1 .. Len(q) : a[k] = q[k]
  OBVIOUS
<1>2. Host(now) \in Int /\ now.tt \in Int
  BY GetTimeType, TimesType, BoundsAssumption
<1> HIDE DEF a
<1>3. ASSUME NEW k \in 1 .. m, a[k].type = "time"
      PROVE  NotAfter(a[k], now.tt, Host(now))
  <2>1. CASE k = m
    <3>1. a[k].at = now.tt /\ Universal(a[k]) = Host(now)
      BY <1>1, <1>3, <2>1 DEF Current
    <3> QED
      BY <1>2, <3>1 DEF NotAfter
  <2>2. CASE k \in 1 .. Len(q)
    BY <1>1, <1>3, <2>2 DEF Past
  <2> QED
    BY <1>1, <2>1, <2>2
<1>4. ASSUME NEW j \in 1 .. m, NEW k \in 1 .. m, j < k,
             a[j].type = "time", a[k].type = "time"
      PROVE  NotAfter(a[j], a[k].at, Universal(a[k]))
  <2>1. CASE k = m
    <3>1. a[k].at = now.tt /\ Universal(a[k]) = Host(now)
      BY <1>1, <1>4, <2>1 DEF Current
    <3> QED
      BY <1>3, <1>4, <3>1
  <2>2. CASE k \in 1 .. Len(q)
    <3>1. j \in 1 .. Len(q)
      BY <1>1, <1>4, <2>2
    <3> QED
      BY <1>1, <1>4, <2>2, <3>1 DEF InOrder
  <2> QED
    BY <1>1, <2>1, <2>2
<1>5. InOrder(a) /\ Past(a)
  BY <1>1, <1>3, <1>4 DEF InOrder, Past
<1> QED
  BY <1>5 DEF a

LEMMA SentTimely ==
    ASSUME NEW s \in Server, NEW type \in PduType, NEW data \in Int,
           Numbered, inbox \in Seq(Pdu), now \in Times, Timely(s),
           type = "time" => data = GetTime(now)
    PROVE  Timely(Sent(s, type, data))
<1> DEFINE p == [type |-> type, n |-> writes + 1, data |-> data,
                 at |-> IF type = "time" THEN now.tt ELSE 0]
<1>1. p \in Pdu
  BY TimesType, BoundsAssumption DEF Numbered, Pdu, PduType
<1>2. p.type = "time" => Current(p)
  BY DEF Current, Universal, Host
<1>3. Sent(s, type, data).out = Append(s.out, p) /\ s.out \in Seq(Pdu)
  BY DEF Sent, Server
<1> HIDE DEF p
<1>4. inbox \o s.out \in Seq(Pdu)
  BY <1>3
<1>5. inbox \o Sent(s, type, data).out = Append(inbox \o s.out, p)
  BY <1>1, <1>3, StreamSent
<1>6. InOrder(Append(inbox \o s.out, p)) /\ Past(Append(inbox \o s.out, p))
  BY <1>1, <1>2, <1>4, AppendTimely DEF Timely
<1> QED
  BY <1>5, <1>6 DEF Timely

LEMMA CommandTimely ==
    ASSUME NEW s \in Server, NEW byte, Numbered, inbox \in Seq(Pdu),
           now \in Times, Timely(s)
    PROVE  Timely(Command(s, byte))
<1>0. {"face", "time", "done"} \subseteq PduType /\ GetTime(now) \in Int
  BY GetTimeType DEF PduType
<1>1. Timely(FaceRequest(s))
  <2>1. Timely([s EXCEPT !.proc = "failed"])
    BY DEF Timely, Server
  <2>2. Timely(Sent(s, "face", 0))
    BY <1>0, SentTimely
  <2> QED
    BY <2>1, <2>2 DEF FaceRequest
<1>2. Timely(Sent(s, "time", GetTime(now)))
  BY <1>0, SentTimely
<1>3. Timely(Status(s))
  <2> DEFINE n == (s.polls + 1) % PollMod
             b == [s EXCEPT !.polls = n, !.face = FALSE, !.spent = TRUE]
  <2>1. n \in 0 .. PollMod - 1
    BY BoundsAssumption DEF Server
  <2>2. Status(s) = Sent(b, "done", 0)
    BY DEF Status
  <2> HIDE DEF n
  <2>3. b \in Server
    BY <2>1, Zenon DEF Server
  <2>4. b.out = s.out
    BY DEF Server
  <2> HIDE DEF b
  <2> QED
    BY <1>0, <2>2, <2>3, <2>4, SentTimely DEF Timely
<1> QED
  BY <1>1, <1>2, <1>3
     DEF Command, CLK_REQ_FACE_TIME, CLK_REQ_TIME, CLK_ACCEPT_STATUS

LEMMA WrittenTimely ==
    ASSUME NEW s \in Server, NEW v \in Value, Numbered,
           inbox \in Seq(Pdu), now \in Times, Timely(s)
    PROVE  Timely(Written(s, v))
<1>1. ASSUME NEW t \in Server, Timely(t), NEW type \in {"rsp", "err"}
      PROVE  Timely(Answered(t, v, type))
  <2>1. type \in PduType /\ 0 \in Int /\ type # "time"
    BY DEF PduType
  <2>2. Timely(Sent(t, type, 0))
    BY <1>1, <2>1, SentTimely
  <2> QED
    BY <1>1, <2>2 DEF Answered
<1>2. v.target \in {"svc_ccc", "clock_ccc", "clock"}
  BY DEF Value
<1>3. CASE v.target = "clock"
  <2>1. Command(s, v.byte) \in Server /\ Timely(Command(s, v.byte))
    BY CommandType, CommandTimely
  <2>2. Timely(ClockWrite(s, v))
    BY <1>1, <2>1 DEF ClockWrite
  <2> QED
    BY <1>3, <2>2 DEF Written
<1>4. CASE v.target \in {"svc_ccc", "clock_ccc"}
  <2> DEFINE f(on) == [s EXCEPT !.flags[v.target] = (v.byte = on)]
  <2>1. ASSUME NEW on PROVE f(on) \in Server /\ Timely(f(on))
    BY <1>4, FlagsType DEF Timely, Server
  <2> HIDE DEF f
  <2>2. ASSUME NEW on PROVE Timely(CccWrite(s, v, on))
    BY <1>1, <2>1 DEF CccWrite, f
  <2> QED
    BY <1>4, <2>2 DEF Written
<1> QED
  BY <1>2, <1>3, <1>4

(* The times a client is sent go back only with the offset of the zone, as *)
(* far as it falls: each is the host's time when the request was executed, *)
(* in the offset of that time, and the write_queue keeps the order.        *)
THEOREM TimesInOrder == Spec => []TimesGoForward
<1>1. Init => OrderInv
  BY DEF Init, OrderInv
<1>2. TypeOK /\ OrderInv /\ [Next]_vars => OrderInv'
  <2> SUFFICES ASSUME TypeOK, OrderInv, [Next]_vars
               PROVE  OrderInv'
    OBVIOUS
  <2>0. /\ srv \in Server /\ now \in Times /\ inbox \in Seq(Pdu)
        /\ srv.out \in Seq(Pdu)
    BY DEF TypeOK, Server
  <2>1. CASE Connect
    <3>1. up' /\ inbox' = << >> /\ srv'.out = srv.out /\ srv.out = << >>
      BY <2>0, <2>1 DEF Connect, Server, OrderInv
    <3>2. (inbox \o srv.out)' = << >>
      BY <3>1
    <3> QED
      BY <3>1, <3>2 DEF OrderInv, Timely, InOrder, Past
  <2>2. CASE Write
    <3>1. PICK v \in Value : srv' = Written(srv, v)
      BY <2>2 DEF Write
    <3>2. Numbered /\ Timely(srv) /\ inbox' = inbox /\ now' = now
      BY <2>2, BoundsAssumption DEF Write, TypeOK, Numbered, OrderInv
    <3>3. Timely(Written(srv, v))
      BY <2>0, <3>2, WrittenTimely
    <3>4. InOrder(inbox \o srv'.out) /\ Past(inbox \o srv'.out)
      BY <3>1, <3>3 DEF Timely
    <3>5. Timely(srv)'
      BY <3>2, <3>4 DEF Timely, InOrder, Past
    <3> QED
      BY <2>2, <3>5 DEF Write, OrderInv
  <2>3. CASE Transmit
    <3>1. inbox' = Append(inbox, Head(srv.out)) /\ srv'.out = Tail(srv.out)
          /\ now' = now /\ Timely(srv)
      BY <2>0, <2>3 DEF Transmit, Server, OrderInv
    <3>2. inbox' \o srv'.out = inbox \o srv.out
      BY <2>0, <2>3, <3>1, StreamTransmitted DEF Transmit
    <3>3. Timely(srv)'
      BY <3>1, <3>2 DEF Timely, InOrder, Past
    <3> QED
      BY <2>3, <3>3 DEF Transmit, OrderInv
  <2>4. CASE Drop
    BY <2>0, <2>4 DEF Drop, OrderInv, Server
  <2>5. CASE Tick
    <3>1. srv' = srv /\ inbox' = inbox /\ now' \in Times /\ Later(now, now')
          /\ up' = up
      BY <2>5 DEF Tick, OrderInv
    <3> SUFFICES ASSUME up PROVE Timely(srv)'
      BY <2>5, <3>1 DEF OrderInv
    <3>8. Timely(srv)
      BY DEF OrderInv
    <3>2. Host(now) <= Host(now') /\ now.tt <= now'.tt
      BY <2>0, <3>1, GetTimeMonotone DEF Host, Later
    <3>3. /\ Host(now) \in Int /\ Host(now') \in Int
          /\ now.tt \in Int /\ now'.tt \in Int
      BY <2>0, <3>1, GetTimeType, TimesType, BoundsAssumption
    <3> DEFINE q == inbox \o srv.out
    <3>4. q \in Seq(Pdu)
      BY <2>0
    <3>5. ASSUME NEW k \in DOMAIN q, q[k].type = "time"
          PROVE  NotAfter(q[k], now'.tt, Host(now'))
      <4>1. NotAfter(q[k], now.tt, Host(now))
        BY <3>5, <3>8 DEF Timely, Past
      <4>2. Universal(q[k]) \in Int /\ q[k].at \in Int
        <5>1. k \in 1 .. Len(q)
          BY <3>4, LenProperties
        <5>2. q[k] \in Pdu
          BY <3>4, <5>1, ElementOfSeq
        <5>3. /\ q[k].data \in Int /\ q[k].at \in 0 .. Seconds
              /\ Zone[q[k].at] \in Int
          BY <5>2, ClockAssumption, SMT DEF Pdu
        <5>4. q[k].at \in Int /\ Zone[q[k].at] * 256 \in Int
          BY <5>3, BoundsAssumption, SMT
        <5> QED
          BY <5>3, <5>4, SMT DEF Universal
      <4> QED
        BY <3>2, <3>3, <4>1, <4>2, SMTT(30) DEF NotAfter
    <3>6. (inbox \o srv.out)' = q
      BY <3>1
    <3>7. InOrder(q)
      BY <3>8 DEF Timely
    <3> HIDE DEF q
    <3> QED
      BY <3>5, <3>6, <3>7 DEF Timely, InOrder, Past
  <2>6. CASE UNCHANGED vars
    BY <2>6 DEF vars, OrderInv, Timely, InOrder, Past
  <2> QED
    BY <2>1, <2>2, <2>3, <2>4, <2>5, <2>6 DEF Next
<1>3. OrderInv => TimesGoForward
  BY DEF OrderInv, Timely, InOrder, NotAfter, TimesGoForward, Stream
<1> QED
  BY <1>1, <1>2, <1>3, TypeCorrect, PTL DEF Spec

-----------------------------------------------------------------------------
(* gPollCount, a counter that wraps *)

LEMMA Division ==
    ASSUME NEW m \in Nat \ {0}, NEW x \in Nat,
           NEW q, q = x \div m, NEW r, r = x % m
    PROVE  x = m * q + r /\ q \in Int /\ r \in 0 .. m - 1
<1>1. x = m * q + r
  OBVIOUS
<1>2. q \in Int
  OBVIOUS
<1>3. r \in 0 .. m - 1
  OBVIOUS
<1> QED
  BY <1>1, <1>2, <1>3

LEMMA Remainder ==
    ASSUME NEW m \in Nat \ {0}, NEW x \in Nat, NEW q \in Int,
           NEW r \in 0 .. m - 1, x = m * q + r
    PROVE  x % m = r
OBVIOUS

LEMMA WrappedCount ==
    ASSUME NEW m \in Nat \ {0}, NEW x \in Nat
    PROVE  ((x % m) + 1) % m = (x + 1) % m
<1> DEFINE q == x \div m
           r == x % m
<1>1. x = m * q + r /\ r \in 0 .. m - 1 /\ q \in Int
  BY Division
<1> HIDE DEF q, r
<1>2. CASE r + 1 = m
  <2>1. x + 1 = m * (q + 1) + 0
    BY <1>1, <1>2
  <2>2. (x + 1) % m = 0
    BY <1>1, <2>1, Remainder
  <2>3. m % m = 0
    BY Remainder
  <2> QED
    BY <1>2, <2>2, <2>3 DEF r
<1>3. CASE r + 1 # m
  <2>1. r + 1 \in 0 .. m - 1 /\ x + 1 = m * q + (r + 1)
    BY <1>1, <1>3
  <2>2. (x + 1) % m = r + 1
    BY <1>1, <2>1, Remainder
  <2>3. (r + 1) % m = r + 1
    BY <2>1
  <2> QED
    BY <2>2, <2>3 DEF r
<1> QED
  BY <1>2, <1>3

LEMMA CountWithin ==
    ASSUME NEW m \in Nat \ {0}, NEW x \in 0 .. m - 1
    PROVE  (x + 0) % m = x
OBVIOUS

-----------------------------------------------------------------------------
(* The answers of the writes *)

\* The strengthening: nothing in the stream belongs to a write that is not
\* made yet. T: the types of what write n has caused so far.
AnswersLast(q) ==
    \A j, k \in DOMAIN q : j < k =>
        /\ q[j].n <= q[k].n
        /\ q[j].n = q[k].n => /\ q[j].type \notin {"rsp", "err"}
                              /\ q[k].type = "rsp"

Upto(q, n, T) ==
    \A k \in DOMAIN q : q[k].n <= n /\ (q[k].n = n => q[k].type \in T)

Streamed(s) == inbox \o s.out

Caused(s, T) == AnswersLast(Streamed(s)) /\ Upto(Streamed(s), writes + 1, T)

Notified == {"face", "time", "done"}

AnswerInv == IF up THEN AnswersLast(Stream) /\ \A k \in DOMAIN Stream :
                                                    Stream[k].n <= writes
             ELSE srv.out = << >>

LEMMA StreamedSent ==
    ASSUME NEW s \in Server, NEW type \in PduType, NEW data \in Int,
           Numbered, inbox \in Seq(Pdu)
    PROVE  \E p \in Pdu :
               /\ p.type = type /\ p.n = writes + 1
               /\ Streamed(Sent(s, type, data)) = Append(Streamed(s), p)
               /\ Streamed(s) \in Seq(Pdu)
<1> DEFINE p == [type |-> type, n |-> writes + 1, data |-> data,
                 at |-> IF type = "time" THEN now.tt ELSE 0]
<1>1. p \in Pdu /\ p.type = type /\ p.n = writes + 1
  BY TimesType, BoundsAssumption DEF Numbered, Pdu, PduType
<1>2. Sent(s, type, data).out = Append(s.out, p) /\ s.out \in Seq(Pdu)
  BY DEF Sent, Server
<1> HIDE DEF p
<1>3. inbox \o Append(s.out, p) = Append(inbox \o s.out, p)
  BY <1>1, <1>2, StreamSent
<1>4. Streamed(s) \in Seq(Pdu)
  BY <1>2 DEF Streamed
<1> QED
  BY <1>1, <1>2, <1>3, <1>4 DEF Streamed

LEMMA AppendAnswers ==
    ASSUME NEW q \in Seq(Pdu), NEW p \in Pdu, NEW T,
           AnswersLast(q), Upto(q, p.n, T),
           T \cap {"rsp", "err"} = {}, T = {} \/ p.type = "rsp"
    PROVE  AnswersLast(Append(q, p)) /\ Upto(Append(q, p), p.n, T \cup {p.type})
<1> DEFINE m == Len(q) + 1
           a == Append(q, p)
<1>1. /\ DOMAIN a = 1 .. m /\ DOMAIN q = 1 .. Len(q) /\ Len(q) \in Nat
      /\ a[m] = p
      /\ \A k \in 1 .. Len(q) : a[k] = q[k]
  OBVIOUS
<1>2. p.n \in Int
  BY BoundsAssumption DEF Pdu
<1> HIDE DEF a
<1>3. Upto(a, p.n, T \cup {p.type})
  <2> SUFFICES ASSUME NEW k \in 1 .. m
               PROVE  /\ a[k].n <= p.n
                      /\ a[k].n = p.n => a[k].type \in T \cup {p.type}
    BY <1>1 DEF Upto
  <2>1. CASE k = m
    BY <1>1, <1>2, <2>1
  <2>2. CASE k \in 1 .. Len(q)
    BY <1>1, <2>2 DEF Upto
  <2> QED
    BY <1>1, <2>1, <2>2
<1>4. ASSUME NEW j \in 1 .. m, NEW k \in 1 .. m, j < k
      PROVE  /\ a[j].n <= a[k].n
             /\ a[j].n = a[k].n => /\ a[j].type \notin {"rsp", "err"}
                                   /\ a[k].type = "rsp"
  <2>0. j \in 1 .. Len(q)
    BY <1>1, <1>4
  <2>1. CASE k = m
    <3>1. a[j] = q[j] /\ a[k] = p
      BY <1>1, <2>0, <2>1
    <3>2. q[j].n <= p.n /\ (q[j].n = p.n => q[j].type \in T)
      BY <1>1, <2>0 DEF Upto
    <3> QED
      BY <3>1, <3>2
  <2>2. CASE k \in 1 .. Len(q)
    <3>1. a[j] = q[j] /\ a[k] = q[k]
      BY <1>1, <2>0, <2>2
    <3> QED
      BY <1>1, <1>4, <2>0, <2>2, <3>1 DEF AnswersLast
  <2> QED
    BY <1>1, <2>1, <2>2
<1>5. AnswersLast(a)
  BY <1>1, <1>4 DEF AnswersLast
<1> QED
  BY <1>3, <1>5 DEF a

LEMMA SentCaused ==
    ASSUME NEW s \in Server, NEW type \in PduType, NEW data \in Int,
           Numbered, inbox \in Seq(Pdu), NEW T, Caused(s, T),
           T \cap {"rsp", "err"} = {}, T = {} \/ type = "rsp"
    PROVE  Caused(Sent(s, type, data), T \cup {type})
<1>1. PICK p \in Pdu :
          /\ p.type = type /\ p.n = writes + 1
          /\ Streamed(Sent(s, type, data)) = Append(Streamed(s), p)
          /\ Streamed(s) \in Seq(Pdu)
  BY StreamedSent
<1>2. AnswersLast(Streamed(s)) /\ Upto(Streamed(s), p.n, T)
  BY <1>1 DEF Caused
<1>3. /\ AnswersLast(Append(Streamed(s), p))
      /\ Upto(Append(Streamed(s), p), p.n, T \cup {p.type})
  BY <1>1, <1>2, AppendAnswers
<1> QED
  BY <1>1, <1>3 DEF Caused

LEMMA UptoMore ==
    ASSUME NEW s, NEW S, NEW T, S \subseteq T, Caused(s, S)
    PROVE  Caused(s, T)
BY DEF Caused, Upto

LEMMA CommandCaused ==
    ASSUME NEW s \in Server, NEW byte, Numbered, inbox \in Seq(Pdu),
           now \in Times, Caused(s, {})
    PROVE  Caused(Command(s, byte), Notified)
<1>0. Notified \subseteq PduType /\ GetTime(now) \in Int
  BY GetTimeType DEF PduType, Notified
<1>1. ASSUME NEW t \in Server, NEW type \in Notified, NEW data \in Int,
             Caused(t, {})
      PROVE  Caused(Sent(t, type, data), Notified)
  <2>1. Caused(Sent(t, type, data), {} \cup {type})
    BY <1>0, <1>1, SentCaused
  <2>2. {} \cup {type} \subseteq Notified
    OBVIOUS
  <2> QED
    BY <2>1, <2>2, UptoMore
<1>2. Caused(FaceRequest(s), Notified)
  <2>1. Caused([s EXCEPT !.proc = "failed"], {})
    BY DEF Caused, Streamed, Server
  <2>2. Caused([s EXCEPT !.proc = "failed"], Notified)
    BY <2>1, UptoMore
  <2>3. Caused(Sent(s, "face", 0), Notified)
    BY <1>1 DEF Notified
  <2> QED
    BY <2>2, <2>3 DEF FaceRequest
<1>3. Caused(Sent(s, "time", GetTime(now)), Notified)
  BY <1>0, <1>1 DEF Notified
<1>4. Caused(Status(s), Notified)
  <2> DEFINE n == (s.polls + 1) % PollMod
             b == [s EXCEPT !.polls = n, !.face = FALSE, !.spent = TRUE]
  <2>1. n \in 0 .. PollMod - 1
    BY BoundsAssumption DEF Server
  <2>2. Status(s) = Sent(b, "done", 0)
    BY DEF Status
  <2> HIDE DEF n
  <2>3. b \in Server
    BY <2>1, Zenon DEF Server
  <2>4. b.out = s.out
    BY DEF Server
  <2> HIDE DEF b
  <2>5. Caused(b, {})
    BY <2>4 DEF Caused, Streamed
  <2> QED
    BY <1>1, <2>2, <2>3, <2>5 DEF Notified
<1>5. Caused(s, Notified)
  BY UptoMore
<1> QED
  BY <1>2, <1>3, <1>4, <1>5
     DEF Command, CLK_REQ_FACE_TIME, CLK_REQ_TIME, CLK_ACCEPT_STATUS

LEMMA WrittenCaused ==
    ASSUME NEW s \in Server, NEW v \in Value, Numbered,
           inbox \in Seq(Pdu), now \in Times, Caused(s, {})
    PROVE  Caused(Written(s, v), PduType)
<1>0. /\ Notified \cap {"rsp", "err"} = {}
      /\ Notified \subseteq PduType /\ {"rsp", "err"} \subseteq PduType
  BY DEF PduType, Notified
<1>1. ASSUME NEW t \in Server, NEW T, Caused(t, T), NEW type \in {"rsp", "err"},
             T \cap {"rsp", "err"} = {}, T \subseteq PduType,
             T = {} \/ type = "rsp"
      PROVE  Caused(Answered(t, v, type), PduType)
  <2>1. Caused(t, PduType)
    BY <1>1, UptoMore
  <2>2. Caused(Sent(t, type, 0), T \cup {type})
    BY <1>0, <1>1, SentCaused
  <2>3. T \cup {type} \subseteq PduType
    BY <1>0, <1>1
  <2>4. Caused(Sent(t, type, 0), PduType)
    BY <2>2, <2>3, UptoMore
  <2> QED
    BY <2>1, <2>4 DEF Answered
<1>2. v.target \in {"svc_ccc", "clock_ccc", "clock"}
  BY DEF Value
<1>3. CASE v.target = "clock"
  <2>1. Command(s, v.byte) \in Server /\ Caused(Command(s, v.byte), Notified)
    BY CommandType, CommandCaused
  <2>2. Caused(Answered(Command(s, v.byte), v, "rsp"), PduType)
    BY <1>0, <1>1, <2>1
  <2>3. Caused(Answered(s, v, "err"), PduType)
    BY <1>1
  <2>4. Caused(ClockWrite(s, v), PduType)
    BY <2>2, <2>3 DEF ClockWrite
  <2> QED
    BY <1>3, <2>4 DEF Written
<1>4. CASE v.target \in {"svc_ccc", "clock_ccc"}
  <2> DEFINE f(on) == [s EXCEPT !.flags[v.target] = (v.byte = on)]
  <2>1. ASSUME NEW on PROVE f(on) \in Server /\ Caused(f(on), {})
    BY <1>4, FlagsType DEF Caused, Streamed, Server
  <2> HIDE DEF f
  <2>2. ASSUME NEW on PROVE Caused(CccWrite(s, v, on), PduType)
    <3>1. Caused(Answered(f(on), v, "rsp"), PduType)
      BY <1>1, <2>1
    <3>2. Caused(Answered(s, v, "err"), PduType)
      BY <1>1
    <3> QED
      BY <3>1, <3>2 DEF CccWrite, f
  <2> QED
    BY <1>4, <2>2 DEF Written
<1> QED
  BY <1>2, <1>3, <1>4

(* A client sees the notification before the answer of the write that      *)
(* asked for it: clock_write_data_write_cb answers after clock_command,    *)
(* and both go through one queue.                                          *)
THEOREM TheAnswerIsLast == Spec => []AnswerComesLast
<1>1. Init => AnswerInv
  BY DEF Init, AnswerInv
<1>2. TypeOK /\ AnswerInv /\ [Next]_vars => AnswerInv'
  <2> SUFFICES ASSUME TypeOK, AnswerInv, [Next]_vars
               PROVE  AnswerInv'
    OBVIOUS
  <2>0. /\ srv \in Server /\ now \in Times /\ inbox \in Seq(Pdu)
        /\ srv.out \in Seq(Pdu) /\ writes \in Nat
    BY BoundsAssumption DEF TypeOK, Server
  <2>1. CASE Connect
    <3>1. up' /\ inbox' = << >> /\ srv'.out = srv.out /\ srv.out = << >>
      BY <2>0, <2>1 DEF Connect, Server, AnswerInv
    <3>2. Stream' = << >>
      BY <3>1 DEF Stream
    <3> QED
      BY <3>1, <3>2 DEF AnswerInv, AnswersLast
  <2>2. CASE Write
    <3>1. PICK v \in Value : srv' = Written(srv, v)
      BY <2>2 DEF Write
    <3>2. /\ Numbered /\ inbox' = inbox /\ writes' = writes + 1 /\ up'
          /\ AnswersLast(Stream)
          /\ \A k \in DOMAIN Stream : Stream[k].n <= writes
      BY <2>2, BoundsAssumption DEF Write, TypeOK, Numbered, AnswerInv
    <3>3. Caused(srv, {})
      <4> DEFINE q == inbox \o srv.out
      <4>1. q \in Seq(Pdu) /\ q = Stream
        BY <2>0 DEF Stream
      <4> HIDE DEF q
      <4>2. ASSUME NEW k \in DOMAIN q
            PROVE  q[k].n <= writes + 1 /\ q[k].n # writes + 1
        <5>1. q[k] \in Pdu
          BY <4>1
        <5>2. q[k].n \in Int /\ q[k].n <= writes
          BY <3>2, <4>1, <5>1, BoundsAssumption DEF Pdu
        <5> QED
          BY <2>0, <5>2
      <4> QED
        BY <3>2, <4>1, <4>2 DEF Caused, Streamed, Upto, q
    <3>4. Caused(Written(srv, v), PduType)
      BY <2>0, <3>2, <3>3, WrittenCaused
    <3>5. Stream' = Streamed(Written(srv, v))
      BY <3>1, <3>2 DEF Stream, Streamed
    <3>6. AnswersLast(Stream')
      BY <3>4, <3>5 DEF Caused
    <3>7. \A k \in DOMAIN Stream' : Stream'[k].n <= writes'
      BY <3>2, <3>4, <3>5 DEF Caused, Upto
    <3> HIDE DEF Stream
    <3> QED
      BY <3>2, <3>6, <3>7 DEF AnswerInv, AnswersLast
  <2>3. CASE Transmit
    <3>1. /\ inbox' = Append(inbox, Head(srv.out)) /\ srv'.out = Tail(srv.out)
          /\ up /\ up' /\ writes' = writes
      BY <2>0, <2>3 DEF Transmit, Server
    <3>2. Stream' = Stream
      BY <2>0, <2>3, <3>1, StreamTransmitted DEF Transmit, Stream
    <3> QED
      BY <3>1, <3>2 DEF AnswerInv, AnswersLast
  <2>4. CASE Drop
    BY <2>0, <2>4 DEF Drop, AnswerInv, Server
  <2>5. CASE Tick
    BY <2>5 DEF Tick, AnswerInv, AnswersLast, Stream
  <2>6. CASE UNCHANGED vars
    BY <2>6 DEF vars, AnswerInv, AnswersLast, Stream
  <2> QED
    BY <2>1, <2>2, <2>3, <2>4, <2>5, <2>6 DEF Next
<1>3. AnswerInv => AnswerComesLast
  BY DEF AnswerInv, AnswersLast, AnswerComesLast
<1> QED
  BY <1>1, <1>2, <1>3, TypeCorrect, PTL DEF Spec

-----------------------------------------------------------------------------
(* The status messages that were counted *)

Dones(q) == {k \in DOMAIN q : q[k].type = "done"}

Counted(s) == s.polls = (base + Cardinality(Dones(Streamed(s)))) % PollMod

PollInv == IF up THEN Counted(srv) ELSE srv.out = << >>

LEMMA AppendDones ==
    ASSUME NEW q \in Seq(Pdu), NEW p
    PROVE  /\ Cardinality(Dones(q)) \in Nat
           /\ Cardinality(Dones(Append(q, p))) =
                  Cardinality(Dones(q)) + (IF p.type = "done" THEN 1 ELSE 0)
<1> DEFINE m == Len(q) + 1
           a == Append(q, p)
<1>1. /\ DOMAIN a = 1 .. m /\ DOMAIN q = 1 .. Len(q) /\ Len(q) \in Nat
      /\ a[m] = p
      /\ \A k \in 1 .. Len(q) : a[k] = q[k]
  OBVIOUS
<1> HIDE DEF a
<1>2. IsFiniteSet(1 .. Len(q))
  BY <1>1, FS_Interval
<1>3. Dones(q) \subseteq 1 .. Len(q)
  BY <1>1 DEF Dones
<1>4. IsFiniteSet(Dones(q))
  BY <1>2, <1>3, FS_Subset
<1>5. Cardinality(Dones(q)) \in Nat
  BY <1>4, FS_CardinalityType
<1>6. CASE p.type = "done"
  <2>1. Dones(a) = Dones(q) \cup {m}
    BY <1>1, <1>6 DEF Dones
  <2>2. m \notin Dones(q)
    BY <1>1, <1>3
  <2>3. Cardinality(Dones(a)) = Cardinality(Dones(q)) + 1
    BY <1>4, <2>1, <2>2, FS_AddElement
  <2> QED
    BY <1>5, <1>6, <2>3 DEF a
<1>7. CASE p.type # "done"
  <2>1. Dones(a) = Dones(q)
    BY <1>1, <1>7 DEF Dones
  <2> QED
    BY <1>5, <1>7, <2>1 DEF a
<1> QED
  BY <1>6, <1>7

LEMMA SentCounted ==
    ASSUME NEW s \in Server, NEW type \in PduType, NEW data \in Int,
           Numbered, inbox \in Seq(Pdu), base \in Nat
    PROVE  LET c == base + Cardinality(Dones(Streamed(s)))
               t == Sent(s, type, data)
           IN  /\ c \in Nat
               /\ base + Cardinality(Dones(Streamed(t))) =
                      c + (IF type = "done" THEN 1 ELSE 0)
               /\ t.polls = s.polls
<1>1. PICK p \in Pdu :
          /\ p.type = type /\ p.n = writes + 1
          /\ Streamed(Sent(s, type, data)) = Append(Streamed(s), p)
          /\ Streamed(s) \in Seq(Pdu)
  BY StreamedSent
<1>2. Sent(s, type, data).polls = s.polls
  BY DEF Sent, Server
<1> DEFINE c == Cardinality(Dones(Streamed(s)))
           e == Cardinality(Dones(Streamed(Sent(s, type, data))))
<1>3. c \in Nat /\ e = c + (IF type = "done" THEN 1 ELSE 0)
  BY <1>1, AppendDones
<1> HIDE DEF c, e
<1>4. base + c \in Nat
      /\ base + e = (base + c) + (IF type = "done" THEN 1 ELSE 0)
  BY <1>3
<1> QED
  BY <1>2, <1>4 DEF c, e

LEMMA NotDoneCounted ==
    ASSUME NEW s \in Server, NEW type \in PduType, NEW data \in Int,
           Numbered, inbox \in Seq(Pdu), base \in Nat, Counted(s),
           type # "done"
    PROVE  Counted(Sent(s, type, data))
<1> DEFINE c == base + Cardinality(Dones(Streamed(s)))
           e == base + Cardinality(Dones(Streamed(Sent(s, type, data))))
<1>1. c \in Nat /\ e = c + 0 /\ Sent(s, type, data).polls = s.polls
  BY SentCounted
<1>2. s.polls = c % PollMod
  BY DEF Counted
<1> HIDE DEF c, e
<1>3. e = c
  BY <1>1
<1> QED
  BY <1>1, <1>2, <1>3 DEF Counted, e

LEMMA StatusCounted ==
    ASSUME NEW s \in Server, Numbered, inbox \in Seq(Pdu), base \in Nat,
           Counted(s)
    PROVE  Counted(Status(s))
<1> DEFINE n == (s.polls + 1) % PollMod
           b == [s EXCEPT !.polls = n, !.face = FALSE, !.spent = TRUE]
           c == base + Cardinality(Dones(Streamed(s)))
           e == base + Cardinality(Dones(Streamed(Status(s))))
<1>1. n \in 0 .. PollMod - 1
  BY BoundsAssumption DEF Server
<1>2. Status(s) = Sent(b, "done", 0)
  BY DEF Status
<1>3. s.polls = c % PollMod
  BY DEF Counted
<1> HIDE DEF n
<1>4. b \in Server
  BY <1>1, Zenon DEF Server
<1>5. b.out = s.out /\ b.polls = n
  BY DEF Server
<1> HIDE DEF b
<1>6. Streamed(b) = Streamed(s)
  BY <1>5 DEF Streamed
<1>7. "done" \in PduType /\ 0 \in Int
  BY DEF PduType
<1>8. c \in Nat /\ e = c + 1 /\ Status(s).polls = n
  BY <1>2, <1>4, <1>5, <1>6, <1>7, SentCounted
<1> HIDE DEF c, e
<1>9. n = ((c % PollMod) + 1) % PollMod
  BY <1>3 DEF n
<1>10. n = (c + 1) % PollMod
  BY <1>8, <1>9, WrappedCount, BoundsAssumption
<1> QED
  BY <1>8, <1>10 DEF Counted, e

LEMMA WrittenCounted ==
    ASSUME NEW s \in Server, NEW v \in Value, Numbered, inbox \in Seq(Pdu),
           base \in Nat, now \in Times, Counted(s)
    PROVE  Counted(Written(s, v))
<1>0. {"face", "time", "rsp", "err"} \subseteq PduType \ {"done"}
      /\ GetTime(now) \in Int
  BY GetTimeType DEF PduType
<1>1. ASSUME NEW t \in Server, Counted(t), NEW type \in {"rsp", "err"}
      PROVE  Counted(Answered(t, v, type))
  <2>1. Counted(Sent(t, type, 0))
    BY <1>0, <1>1, NotDoneCounted
  <2> QED
    BY <1>1, <2>1 DEF Answered
<1>2. v.target \in {"svc_ccc", "clock_ccc", "clock"}
  BY DEF Value
<1>3. CASE v.target = "clock"
  <2>1. Counted(FaceRequest(s))
    <3>1. Counted([s EXCEPT !.proc = "failed"])
      BY DEF Counted, Streamed, Server
    <3>2. Counted(Sent(s, "face", 0))
      BY <1>0, NotDoneCounted
    <3> QED
      BY <3>1, <3>2 DEF FaceRequest
  <2>2. Counted(Sent(s, "time", GetTime(now)))
    BY <1>0, NotDoneCounted
  <2>3. Counted(Status(s))
    BY StatusCounted
  <2>4. Counted(Command(s, v.byte))
    BY <2>1, <2>2, <2>3
       DEF Command, CLK_REQ_FACE_TIME, CLK_REQ_TIME, CLK_ACCEPT_STATUS
  <2>5. Command(s, v.byte) \in Server
    BY CommandType
  <2>6. Counted(ClockWrite(s, v))
    BY <1>1, <2>4, <2>5 DEF ClockWrite
  <2> QED
    BY <1>3, <2>6 DEF Written
<1>4. CASE v.target \in {"svc_ccc", "clock_ccc"}
  <2> DEFINE f(on) == [s EXCEPT !.flags[v.target] = (v.byte = on)]
  <2>1. ASSUME NEW on PROVE f(on) \in Server /\ Counted(f(on))
    BY <1>4, FlagsType DEF Counted, Streamed, Server
  <2> HIDE DEF f
  <2>2. ASSUME NEW on PROVE Counted(CccWrite(s, v, on))
    BY <1>1, <2>1 DEF CccWrite, f
  <2> QED
    BY <1>4, <2>2 DEF Written
<1> QED
  BY <1>2, <1>3, <1>4

(* gPollCount grows by one with every status that is accepted, and with    *)
(* nothing else, modulo 2^16: clock_command counts in one place, and the   *)
(* SRVR_ACCEPT_DONE it sends there stays in the stream.                    *)
THEOREM PollsAreCounted == Spec => []EveryPollCounted
<1>1. Init => PollInv
  BY DEF Init, PollInv
<1>2. TypeOK /\ PollInv /\ [Next]_vars => PollInv'
  <2> SUFFICES ASSUME TypeOK, PollInv, [Next]_vars
               PROVE  PollInv'
    OBVIOUS
  <2>0. /\ srv \in Server /\ now \in Times /\ inbox \in Seq(Pdu)
        /\ srv.out \in Seq(Pdu) /\ base \in Nat
    BY BoundsAssumption DEF TypeOK, Server
  <2>1. CASE Connect
    <3>1. /\ up' /\ inbox' = << >> /\ srv'.out = srv.out /\ srv.out = << >>
          /\ srv'.polls = srv.polls /\ base' = srv.polls
      BY <2>0, <2>1 DEF Connect, Server, PollInv
    <3>2. Streamed(srv)' = << >>
      BY <3>1 DEF Streamed
    <3>3. Dones(Streamed(srv)') = {}
      BY <3>2 DEF Dones
    <3>4. Cardinality(Dones(Streamed(srv)')) = 0
      BY <3>3, FS_EmptySet
    <3>5. srv.polls \in 0 .. PollMod - 1 /\ PollMod \in Nat \ {0}
      BY <2>0, BoundsAssumption DEF Server
    <3>6. (srv.polls + 0) % PollMod = srv.polls
      BY <3>5, CountWithin
    <3>7. Counted(srv)'
      BY <3>1, <3>4, <3>6 DEF Counted, Dones
    <3> QED
      BY <3>1, <3>7 DEF PollInv
  <2>2. CASE Write
    <3>1. PICK v \in Value : srv' = Written(srv, v)
      BY <2>2 DEF Write
    <3>2. Numbered /\ inbox' = inbox /\ base' = base /\ up' /\ Counted(srv)
      BY <2>2, BoundsAssumption DEF Write, TypeOK, Numbered, PollInv
    <3>3. Counted(Written(srv, v))
      BY <2>0, <3>2, WrittenCounted
    <3>4. Counted(srv)'
      BY <3>1, <3>2, <3>3 DEF Counted, Streamed, Dones
    <3> QED
      BY <3>2, <3>4 DEF PollInv
  <2>3. CASE Transmit
    <3>1. /\ inbox' = Append(inbox, Head(srv.out)) /\ srv'.out = Tail(srv.out)
          /\ up /\ up' /\ base' = base /\ srv'.polls = srv.polls
      BY <2>0, <2>3 DEF Transmit, Server
    <3>2. Streamed(srv)' = Streamed(srv)
      BY <2>0, <2>3, <3>1, StreamTransmitted DEF Transmit, Streamed
    <3> QED
      BY <3>1, <3>2 DEF PollInv, Counted, Dones
  <2>4. CASE Drop
    BY <2>0, <2>4 DEF Drop, PollInv, Server
  <2>5. CASE Tick
    BY <2>5 DEF Tick, PollInv, Counted, Dones, Streamed
  <2>6. CASE UNCHANGED vars
    BY <2>6 DEF vars, PollInv, Counted, Dones, Streamed
  <2> QED
    BY <2>1, <2>2, <2>3, <2>4, <2>5, <2>6 DEF Next
<1>3. PollInv => EveryPollCounted
  BY DEF PollInv, Counted, Dones, Streamed, EveryPollCounted, Stream
<1> QED
  BY <1>1, <1>2, <1>3, TypeCorrect, PTL DEF Spec

=============================================================================
