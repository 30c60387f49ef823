---------------------------- MODULE GattServer ----------------------------
(***************************************************************************)
(* The GATT server of one connection: the request handlers of              *)
(* bluez-5.50/src/shared/gatt-server.c over the database that populate_db  *)
(* of src/server.c builds, with the callbacks of its attributes.           *)
(*                                                                         *)
(* bt_att hands the server one PDU after another, and every callback here  *)
(* answers before it returns: a request is one action.  Responses and      *)
(* notifications are what the handler gives to bt_att_send, in order.      *)
(* A byte is a number, or, in a declaration, what the byte stands for.     *)
(***************************************************************************)
EXTENDS Integers, Sequences, SequencesExt, FiniteSets, FiniteSetsExt

CONSTANTS
    MtuArgument,   \* the mtu given to bt_gatt_server_new; the daemon's is 0
    MaxPrep,       \* DEFAULT_MAX_PREP_QUEUE_LEN
    LenMod,        \* value_len is a uint16_t: 2^16
    Requests,      \* what the client may send
    Notices,       \* the lengths of the notifications a command may cause
    AllocMayFail,  \* TRUE if malloc and realloc may fail
    MaxWrites,     \* bound: writes, prepared writes and executions
    None           \* NULL

DEFAULT_LE_MTU == 23
ERROR_LEN == 5

ASSUME BoundsAssumption ==
    /\ MtuArgument \in Nat /\ MaxPrep \in Nat \ {0} /\ LenMod \in Nat \ {0}
    /\ MaxWrites \in Nat
    /\ \A n \in Notices : n \in Nat
ASSUME AllocAssumption == AllocMayFail \in BOOLEAN

Commands == {"WRITE_CMD"}
RspOf == [MTU |-> "MTU_RSP", READ_BY_GROUP |-> "READ_BY_GROUP_RSP",
          READ_BY_TYPE |-> "READ_BY_TYPE_RSP", FIND_INFO |-> "FIND_INFO_RSP",
          FIND_BY_TYPE_VALUE |-> "FIND_BY_TYPE_VALUE_RSP",
          READ |-> "READ_RSP", READ_BLOB |-> "READ_BLOB_RSP",
          READ_MULT |-> "READ_MULT_RSP", WRITE |-> "WRITE_RSP",
          PREP_WRITE |-> "PREP_WRITE_RSP", EXEC_WRITE |-> "EXEC_WRITE_RSP"]
Opcodes == DOMAIN RspOf \cup Commands

\* What a PDU of a request holds: handles, offsets and the MTU have 16 bits
Word == 0 .. 65535
ASSUME RequestsAssumption ==
    \A req \in Requests :
        /\ req.op \in Opcodes \cup {"MALFORMED"}
        /\ req.op \in {"READ_BY_GROUP", "READ_BY_TYPE", "FIND_INFO",
                      "FIND_BY_TYPE_VALUE"} => req.start \in Word /\ req.end \in Word
        /\ req.op \in {"READ", "READ_BLOB", "PREP_WRITE"} => req.offset \in Word
        /\ req.op = "READ" => req.offset = 0
        /\ req.op = "READ_MULT" => req.handles \in Seq(Word) \ {<<>>}
        /\ req.op \in {"WRITE", "WRITE_CMD", "PREP_WRITE"} => req.value \in Seq(0 .. 255)
        /\ req.op = "MTU" => req.mtu \in Word
        /\ req.op = "MALFORMED" => req.of \in Opcodes

VARIABLES
    db,      \* server->db
    flags,   \* svc_chngd_enabled and clock_read_data_notify
    mtu,     \* server->mtu and the MTU of the bt_att
    prep,    \* prep_queue
    last,    \* history: the last PDU of the client, what it led to, and if
             \* the process was still up then
    chunks,  \* history: the writes prepared since prep_queue was last empty
    writes   \* how many writes there were

vars == <<db, flags, mtu, prep, last, chunks, writes>>

Db == INSTANCE GattDb WITH MaxHandle <- 65535, Uuids <- {}, MaxNum <- 0,
                            Places <- {}

-----------------------------------------------------------------------------
(* The database of the daemon                                              *)

Short(name) == [name |-> name, size |-> 2]
Long(name) == [name |-> name, size |-> 16]
Ccc == Short("ccc")
RW == {"READ", "WRITE"}

\* attrib->value of the attribute of a handle
SetValue(d, handle, value) ==
    LET k == CHOOSE k \in DOMAIN d.services :
                 handle \in Db!Start(d.services[k]) .. Db!End(d.services[k])
        i == CHOOSE i \in DOMAIN d.services[k].attributes :
                 d.services[k].attributes[i].handle = handle
    IN  [d EXCEPT !.services[k].attributes[i].value = value]

\* populate_gap_service: a name of ten bytes, which the daemon writes itself
PopulateGap(d) ==
    LET Char(e, uuid) == Db!AddCharacteristic(e, 1, Short(uuid), {"READ"},
                             {"READ"}, "stored", "stored")
        added == Char(Char(Char(Db!AddService(d, TRUE, Short("gap"), 7),
                      "device_name"), "appearance"), "pref_conn")
        named == SetValue(added, 3, <<87, 65, 76, 76, 67, 76, 79, 67, 75, 0>>)
    IN  Db!SetActive(SetValue(SetValue(named, 5, <<0, 0>>),
                              7, <<6, 0, 8, 0, 0, 0, 250, 0>>), 1, TRUE)

\* populate_gatt_service
PopulateGatt(d) ==
    LET added == Db!AddService(d, TRUE, Short("gatt"), 4)
        char == Db!AddCharacteristic(added, 2, Short("svc_chngd"), {"READ"},
                    {"READ", "INDICATE"}, "svc_chngd", "stored")
    IN  Db!SetActive(Db!AddDescriptor(char, 2, Ccc, RW, "svc_ccc", "svc_ccc"),
                     2, TRUE)

\* populate_clock_read_service
PopulateClockRead(d) ==
    LET added == Db!AddService(d, TRUE, Long("i2c_read"), 4)
        char == Db!AddCharacteristic(added, 3, Long("i2c_read_data"), RW,
                    {"NOTIFY"}, "stored", "stored")
    IN  Db!SetActive(
            Db!AddDescriptor(char, 3, Ccc, RW, "clock_ccc", "clock_ccc"),
            3, TRUE)

\* populate_clock_write_service
PopulateClockWrite(d) ==
    LET added == Db!AddService(d, TRUE, Long("i2c_write"), 3)
        char == Db!AddCharacteristic(added, 4, Long("i2c_write_data"),
                    {"WRITE"}, {"WRITE_WITHOUT_RESP"}, "stored", "clock")
    IN  Db!SetActive(char, 4, TRUE)

\* populate_db
Populated ==
    PopulateClockWrite(PopulateClockRead(PopulateGatt(PopulateGap(Db!NewDb))))

-----------------------------------------------------------------------------
(* Attributes                                                              *)

\* The attribute of a handle, or None
At(handle) == Db!GetAttribute(db, handle)

\* Mutant of Permits: a write is not checked
PermitsWrite(a, access) == access = "WRITE" \/ access \in a.perms

\* check_permissions. No attribute here asks for a security level, so the
\* level of the link decides nothing; bt_att_get_security, a getsockopt on the
\* connected socket, is taken not to fail (that would be an UNLIKELY).
Permits(a, access) == a.perms = {} \/ access \in a.perms

Bytes(on, byte) == <<IF on THEN byte ELSE 0, 0>>
OnByte == [svc_ccc |-> 2, clock_ccc |-> 1]
Cccs == DOMAIN OnByte

\* What gatt_db_attribute_read gives from offset on: stored bytes, or what
\* gatt_service_changed_cb, gatt_svc_chngd_ccc_read_cb and
\* clock_read_data_ccc_read_cb answer, which look at no offset
Value(a, offset) ==
    CASE a.read \in Cccs -> Bytes(flags[a.read], OnByte[a.read])
      [] a.read = "svc_chngd" -> <<>>
      [] a.read = "stored" -> SubSeq(a.value, offset + 1, Len(a.value))

\* Mutant of OffsetFits: the offset must be below the length
OffsetBelow(a, offset) == a.read = "stored" => offset < Len(a.value)
OffsetFits(a, offset) == a.read = "stored" => offset <= Len(a.value)

UnknownByte == -1

\* What an attribute can be; NULL is none
Names == {"gap", "gatt", "device_name", "appearance", "pref_conn", "svc_chngd",
          "i2c_read", "i2c_read_data", "i2c_write", "i2c_write_data", "ccc",
          "primary", "secondary", "characteristic", "included"}
UuidSet == [name : Names, size : {2, 16}]
Byte == Nat \cup {UnknownByte}
Atom == Byte \cup Names \cup SUBSET {"READ", "WRITE", "INDICATE", "NOTIFY",
                                     "WRITE_WITHOUT_RESP"}
Attributes == [handle : 1 .. 18, uuid : UuidSet, perms : SUBSET RW,
               value : Seq(Atom), read : {"stored", "svc_chngd"} \cup Cccs,
               write : {"stored", "clock"} \cup Cccs]
ASSUME NoneAssumption == None \notin Attributes

\* A write that takes memory
Grows(old, offset, data) ==
    data # <<>> /\ (offset >= Len(old) \/ Len(data) > Len(old) - offset)

\* Mutant of Stored: value_len is wider than 16 bits
StoredWide(old, offset, data) ==
    IF data = <<>> THEN old
    ELSE [i \in 1 .. Max({Len(old), offset + Len(data)}) |->
             IF i > offset /\ i <= offset + Len(data) THEN data[i - offset]
             ELSE IF i <= Len(old) THEN old[i] ELSE UnknownByte]

\* gatt_db_attribute_write of a stored value. It grows as needed, bytes
\* between the old end and the offset are those of the heap unless there
\* were none before, and a shorter write keeps what lies behind it.
Stored(old, offset, data) ==
    LET end == offset + Len(data)
        gap == IF old = <<>> THEN 0 ELSE UnknownByte
        Now(i) == IF i > offset /\ i <= end THEN data[i - offset]
                  ELSE IF i <= Len(old) THEN old[i] ELSE gap
    IN  IF data = <<>> THEN old
        ELSE [i \in 1 .. IF Grows(old, offset, data)
                        THEN end % LenMod ELSE Len(old) |-> Now(i)]

\* The error a write callback answers, or "": those of the descriptors,
\* gatt_svc_chngd_ccc_write_cb and clock_read_data_ccc_write_cb, take two
\* bytes, that of the clock, clock_write_data_write_cb, up to a hundred
LengthFits(a, value) ==
    CASE a.write \in Cccs -> Len(value) = 2
      [] a.write = "clock" -> Len(value) \in 1 .. 100
      [] OTHER -> TRUE

WriteError(a, offset, value) ==
    IF ~LengthFits(a, value) THEN "INVALID_ATTRIBUTE_VALUE_LEN"
    ELSE IF a.write # "stored" /\ offset # 0 THEN "INVALID_OFFSET"
    ELSE IF a.write \in Cccs /\ value[1] \notin {0, OnByte[a.write]}
         THEN "0x80" ELSE ""

\* A write without error. What the clock does with it is in ClockServer.
Write(a, offset, value) ==
    /\ flags' = IF a.write \in Cccs
                THEN [flags EXCEPT ![a.write] = value[1] # 0] ELSE flags
    /\ db' = IF a.write = "stored"
             THEN SetValue(db, a.handle, Stored(a.value, offset, value))
             ELSE db

-----------------------------------------------------------------------------
(* Answers                                                                 *)

\* len counts the opcode
Pdu(op, len, body) == [op |-> op, len |-> len, body |-> body]
Error(req, handle, code) == Pdu("ERROR", ERROR_LEN, <<req.op, handle, code>>)

\* What a response of lists holds beside the opcode and the size of an entry
Room == mtu.att - 2

Starts(req) == IF req.start = 0 \/ req.end = 0 THEN 0 ELSE req.start
BadRange(req) == req.start = 0 \/ req.end = 0 \/ req.start > req.end

\* Mutant of Alike: the sizes are not compared
AlikeAll(sizes, unit) == Len(sizes)

\* How many entries have the size of the first; unit may be that size cut
Alike(sizes, unit) == Max({n \in 0 .. Len(sizes) :
                               \A k \in 2 .. n : sizes[k] = unit})

\* encode_read_by_grp_type_rsp: services whose UUIDs have one size
GroupList(q) ==
    LET Uuid(k) == q[k].attributes[1].value
        unit == Min({mtu.att - 6, 251, Len(Uuid(1))})
        sizes == [k \in DOMAIN q |-> Len(Uuid(k))]
        count == Min({Alike(sizes, unit), Room \div (unit + 4)})
    IN  Pdu("READ_BY_GROUP_RSP", 2 + count * (unit + 4),
            [k \in 1 .. count |-> [handle |-> Db!Start(q[k]),
                                   end |-> Db!End(q[k]),
                                   value |-> SubSeq(Uuid(k), 1, unit)]])

\* read_by_grp_type_cb
GroupAnswer(req) ==
    LET q == Db!ReadByGroupType(db, req.start, req.end, req.type)
    IN  IF BadRange(req) THEN Error(req, Starts(req), "INVALID_HANDLE")
        ELSE IF req.type \notin {Db!PRIMARY, Db!SECONDARY}
        THEN Error(req, req.start, "UNSUPPORTED_GROUP_TYPE")
        ELSE IF q = <<>> THEN Error(req, req.start, "ATTRIBUTE_NOT_FOUND")
        ELSE GroupList(q)

\* process_read_by_type, read_by_type_read_complete_cb. The values go in as
\* long as they have one size and fit; the attribute that ends the list is
\* read as well, unless the PDU is full, and one that must not be read turns
\* the answer into an error.
TypeList(req, q) ==
    LET Val(k) == Value(q[k], 0)
        unit == Min({mtu.att - 4, 253, Len(Val(1))})
        sizes == [k \in DOMAIN q |-> Len(Val(k))]
        most == Min({Alike(sizes, unit), Room \div (unit + 2)})
        count == Max({n \in 0 .. most :
                          \A k \in 1 .. n : Permits(q[k], "READ")})
        refused == /\ count < Len(q)
                   /\ count * (unit + 2) # Room
                   /\ ~Permits(q[count + 1], "READ")
    IN  IF refused THEN Error(req, q[count + 1].handle, "READ_NOT_PERMITTED")
        ELSE Pdu("READ_BY_TYPE_RSP", 2 + count * (unit + 2),
                 [k \in 1 .. count |->
                     [handle |-> q[k].handle,
                      value |-> SubSeq(Val(k), 1, unit)]])

\* read_by_type_cb
TypeAnswer(req, alloc) ==
    LET q == Db!ReadByType(db, req.start, req.end, req.type)
    IN  IF BadRange(req) THEN Error(req, Starts(req), "INVALID_HANDLE")
        ELSE IF q = <<>> THEN Error(req, req.start, "ATTRIBUTE_NOT_FOUND")
        ELSE IF ~alloc THEN Error(req, req.start, "INSUFFICIENT_RESOURCES")
        ELSE TypeList(req, q)

\* encode_find_info_rsp: handles with UUIDs of one size
InfoList(q) ==
    LET unit == q[1].uuid.size
        sizes == [k \in DOMAIN q |-> q[k].uuid.size]
        count == Min({Alike(sizes, unit), Room \div (unit + 2)})
    IN  Pdu("FIND_INFO_RSP", 2 + count * (unit + 2),
            [k \in 1 .. count |-> [handle |-> q[k].handle,
                                   uuid |-> q[k].uuid]])

\* find_info_cb
InfoAnswer(req) ==
    LET q == Db!FindInformation(db, req.start, req.end)
    IN  IF BadRange(req) THEN Error(req, Starts(req), "INVALID_HANDLE")
        ELSE IF q = <<>> THEN Error(req, req.start, "ATTRIBUTE_NOT_FOUND")
        ELSE InfoList(q)

\* find_by_type_val_cb, find_by_type_val_att_cb: whatever type was asked
\* for, an entry is the range of the service that holds the attribute
FoundAnswer(req) ==
    LET q == Db!FindByTypeValue(db, req.start, req.end, req.type, req.value)
        count == Min({Len(q), (mtu.att - 1) \div 4})
        Group(k) == Db!GetService(db, q[k].handle)
    IN  IF req.start > req.end
        THEN Error(req, req.start, "INVALID_HANDLE")
        ELSE IF q = <<>> THEN Error(req, req.start, "ATTRIBUTE_NOT_FOUND")
        ELSE Pdu("FIND_BY_TYPE_VALUE_RSP", 1 + count * 4,
                 [k \in 1 .. count |-> [handle |-> Db!Start(Group(k)),
                                        end |-> Db!End(Group(k))]])

ReadRsp == [READ |-> "READ_RSP", READ_BLOB |-> "READ_BLOB_RSP"]

\* handle_read_req, read_complete_cb; read_cb passes 0 for the offset
ReadAnswer(req) ==
    LET a == At(req.handle)
        data == Value(a, req.offset)
        len == Min({mtu.att - 1, Len(data)})
    IN  IF a = None THEN Error(req, req.handle, "INVALID_HANDLE")
        ELSE IF ~Permits(a, "READ")
        THEN Error(req, req.handle, "READ_NOT_PERMITTED")
        ELSE IF ~OffsetFits(a, req.offset)
        THEN Error(req, req.handle, "INVALID_OFFSET")
        ELSE Pdu(ReadRsp[req.op], 1 + len, SubSeq(data, 1, len))

\* read_multiple_cb, read_multiple_complete_cb: values behind each other up
\* to the MTU. The attributes behind that are not looked at; of the others
\* the first that is not there or must not be read makes the answer an
\* error, with handle 0 if the first is not there.
MultipleAnswer(req, alloc) ==
    LET hs == req.handles
        room == mtu.att - 1
        Missing(i) == At(hs[i]) = None
        Bad(i) == Missing(i) \/ ~Permits(At(hs[i]), "READ")
        Upto(i) == FlattenSeq([k \in 1 .. i |-> Value(At(hs[k]), 0)])
        bad == {i \in DOMAIN hs : Bad(i)}
        first == Min(bad)
        full == {i \in DOMAIN hs :
                     (\A k \in 1 .. i : ~Bad(k)) /\ Len(Upto(i)) >= room}
    IN  IF ~alloc THEN Error(req, 0, "UNLIKELY")
        ELSE IF bad = {} \/ full # {}
        THEN LET all == Upto(IF full # {} THEN Min(full) ELSE Len(hs))
                 len == Min({room, Len(all)})
             IN  Pdu("READ_MULT_RSP", 1 + len, SubSeq(all, 1, len))
        ELSE IF Missing(first)
        THEN Error(req, IF first = 1 THEN 0 ELSE hs[first], "INVALID_HANDLE")
        ELSE Error(req, hs[first], "READ_NOT_PERMITTED")

\* bt_gatt_server_send_notification: cut to the MTU
Notification(handle, length) ==
    Pdu("NOTIFICATION", 1 + Min({mtu.att - 1, length + 2}), <<handle>>)

-----------------------------------------------------------------------------
(* Requests                                                                *)

NoRequest == [op |-> "none"]

Init ==
    /\ db = Populated
    /\ flags = [c \in Cccs |-> FALSE]
    /\ mtu = [server |-> Max({MtuArgument, DEFAULT_LE_MTU}),
              att |-> DEFAULT_LE_MTU,
              client |-> DEFAULT_LE_MTU]  \* history: what the client expects
    /\ prep = <<>>
    /\ last = [req |-> NoRequest, out |-> <<>>, up |-> TRUE]
    /\ chunks = <<>>
    /\ writes = 0

Sent(req, out) == last' = [req |-> req, out |-> out, up |-> TRUE]
Crashed(req) == last' = [req |-> req, out |-> <<>>, up |-> FALSE]
Written == writes < MaxWrites /\ writes' = writes + 1

\* A PDU of the client that its MTU lets through, `head' without the value
Carries(head, value) == head + Len(value) <= mtu.att

\* The outcomes of an allocation
Alloc == IF AllocMayFail THEN BOOLEAN ELSE {TRUE}

\* The handlers that only look
Look(req) ==
    /\ \/ /\ req.op = "READ_BY_GROUP"
          /\ Sent(req, <<GroupAnswer(req)>>)
       \/ /\ req.op = "READ_BY_TYPE"
          /\ \E alloc \in Alloc : Sent(req, <<TypeAnswer(req, alloc)>>)
       \/ /\ req.op = "FIND_INFO"
          /\ Sent(req, <<InfoAnswer(req)>>)
       \/ /\ req.op = "FIND_BY_TYPE_VALUE"
          /\ Sent(req, <<FoundAnswer(req)>>)
       \/ /\ req.op \in {"READ", "READ_BLOB"}
          /\ Sent(req, <<ReadAnswer(req)>>)
       \/ /\ req.op = "READ_MULT"
          /\ \E alloc \in Alloc : Sent(req, <<MultipleAnswer(req, alloc)>>)
    /\ UNCHANGED <<db, flags, mtu, prep, chunks, writes>>

\* Mutant of ExchangeMtu: the larger of the two
ExchangeMtuMax(req) ==
    /\ req.op = "MTU"
    /\ LET final == Max({req.mtu, mtu.server, DEFAULT_LE_MTU})
       IN  mtu' = [server |-> final, att |-> final,
                   client |-> Max({Min({req.mtu, mtu.server}),
                                   DEFAULT_LE_MTU})]
    /\ Sent(req, <<Pdu("MTU_RSP", 3, <<mtu.server>>)>>)
    /\ UNCHANGED <<db, flags, prep, chunks, writes>>

\* exchange_mtu_cb. The client takes the smaller of its own MTU and that of
\* the answer. Without memory bt_att keeps the old one.
ExchangeMtu(req) ==
    /\ req.op = "MTU"
    /\ LET final == Max({Min({req.mtu, mtu.server}), DEFAULT_LE_MTU})
       IN  \E alloc \in Alloc :
               mtu' = [server |-> final,
                       att |-> IF alloc THEN final ELSE mtu.att,
                       client |-> final]
    /\ Sent(req, <<Pdu("MTU_RSP", 3, <<mtu.server>>)>>)
    /\ UNCHANGED <<db, flags, prep, chunks, writes>>

\* Mutant of Refused: a command is answered as well
RefusedAloud(req, code) ==
    /\ Sent(req, <<Error(req, req.handle, code)>>)
    /\ UNCHANGED <<db, flags>>

\* A write that is not made; a command is not answered
Refused(req, code) ==
    /\ Sent(req, IF req.op = "WRITE_CMD" THEN <<>>
                 ELSE <<Error(req, req.handle, code)>>)
    /\ UNCHANGED <<db, flags>>

\* A write that is made. The clock may be notified before it is answered.
Made(req, a) ==
    /\ Write(a, 0, req.value)
    /\ \E notices \in {<<>>} \cup
                      {<<Notification(14, n)>> :
                           n \in {m \in Notices : a.write = "clock"}} :
           Sent(req, notices \o (IF req.op = "WRITE_CMD" THEN <<>>
                                 ELSE <<Pdu("WRITE_RSP", 1, <<>>)>>))

\* write_cb, write_complete_cb
WriteRequest(req) ==
    /\ req.op \in {"WRITE", "WRITE_CMD"}
    /\ Carries(3, req.value)
    /\ Written
    /\ LET a == At(req.handle)
           error == WriteError(a, 0, req.value)
       IN  IF a = None THEN Refused(req, "INVALID_HANDLE")
           ELSE IF ~Permits(a, "WRITE")
           THEN Refused(req, "WRITE_NOT_PERMITTED")
           ELSE IF error # "" THEN Refused(req, error)
           ELSE \/ Made(req, a)
                \/ /\ FALSE \in Alloc /\ a.write = "stored"
                   /\ Grows(a.value, 0, req.value)
                   /\ Refused(req, "UNLIKELY")
    /\ UNCHANGED <<mtu, prep, chunks>>

\* Mutant of Continues: the offset is not looked at
ContinuesAnyOffset(p, req) == p.handle = req.handle

\* store_prep_data: the write goes on where the youngest entry ends
Continues(p, req) ==
    p.handle = req.handle /\ req.offset = p.offset + Len(p.value)

\* store_prep_data, append_prep_data, prep_data_new. No characteristic here
\* has extended properties, so is_reliable_write_supported is false.
StorePrepData(req) ==
    IF prep # <<>> /\ Continues(Last(prep), req)
    THEN [prep EXCEPT ![Len(prep)].value = @ \o req.value]
    ELSE Append(prep, [handle |-> req.handle, offset |-> req.offset,
                       value |-> req.value])

\* prep_write_cb, prep_write_complete_cb. The PDU is copied to what malloc
\* gave, unchecked: without memory the process ends there. The database is
\* asked to write nothing, which only a stored value accepts. If the data
\* cannot be kept the client is sent an error and the response as well.
Prepare(req) ==
    LET a == At(req.handle)
        rsp == Pdu("PREP_WRITE_RSP", 5 + Len(req.value), <<req>>)
        Reject(handle, code) == /\ Sent(req, <<Error(req, handle, code)>>)
                                /\ UNCHANGED <<prep, chunks>>
    IN  /\ req.op = "PREP_WRITE"
        /\ Carries(5, req.value)
        /\ Written
        /\ IF Len(prep) >= MaxPrep THEN Reject(0, "PREPARE_QUEUE_FULL")
           ELSE IF a = None THEN Reject(req.handle, "INVALID_HANDLE")
           ELSE IF ~Permits(a, "WRITE")
           THEN Reject(req.handle, "WRITE_NOT_PERMITTED")
           ELSE \/ /\ FALSE \in Alloc
                   /\ Crashed(req)
                   /\ UNCHANGED <<prep, chunks>>
                \/ /\ a.write # "stored"
                   /\ Reject(req.handle, "INVALID_ATTRIBUTE_VALUE_LEN")
                \/ /\ a.write = "stored"
                   /\ prep' = StorePrepData(req)
                   /\ chunks' = Append(chunks, req)
                   /\ Sent(req, <<rsp>>)
                \/ /\ a.write = "stored"
                   /\ FALSE \in Alloc /\ req.value # <<>>
                   /\ Sent(req, <<Error([op |-> "PREP_WRITE_RSP"], req.handle,
                                        "INSUFFICIENT_RESOURCES"), rsp>>)
                   /\ UNCHANGED <<prep, chunks>>
        /\ UNCHANGED <<db, flags, mtu>>

Forget == prep' = <<>> /\ chunks' = <<>>
Executed == Pdu("EXEC_WRITE_RSP", 1, <<>>)

\* More than one entry takes a reliable write, which no entry supports
Unreliable == Len(prep) > 1

\* exec_next_prep_write, exec_write_complete_cb: the entries one after the
\* other, each of a stored value
WriteAll ==
    LET WriteOne(d, p) == SetValue(d, p.handle,
            Stored(Db!GetAttribute(d, p.handle).value, p.offset, p.value))
        upTo[n \in 0 .. Len(prep)] ==
            IF n = 0 THEN db ELSE WriteOne(upTo[n - 1], prep[n])
    IN  db' = upTo[Len(prep)] /\ UNCHANGED flags

\* exec_write_cb. Flags are 0, cancel, 1, write, or an error. Whatever the
\* answer, the queue is emptied.
Execute(req) ==
    LET Fail(handle, code) == /\ Sent(req, <<Error(req, handle, code)>>)
                              /\ UNCHANGED <<db, flags>>
    IN  /\ req.op = "EXEC_WRITE"
        /\ Written
        /\ \/ /\ req.flags = 0
              /\ Sent(req, <<Executed>>)
              /\ UNCHANGED <<db, flags>>
           \/ /\ req.flags = 1 /\ Unreliable
              /\ Fail(Head(prep).handle, "REQUEST_NOT_SUPPORTED")
           \/ /\ req.flags = 1 /\ ~Unreliable
              /\ \/ Sent(req, <<Executed>>) /\ WriteAll
                 \/ /\ FALSE \in Alloc /\ prep # <<>>
                    /\ Grows(At(Head(prep).handle).value, Head(prep).offset,
                             Head(prep).value)
                    /\ Fail(0, "UNLIKELY")
           \/ /\ req.flags \notin {0, 1}
              /\ Fail(0, "INVALID_PDU")
        /\ Forget
        /\ UNCHANGED mtu

\* A PDU whose length is not that of its opcode
Malformed(req) ==
    /\ req.op = "MALFORMED"
    /\ Sent(req, IF req.of = "WRITE_CMD" THEN <<>>
                 ELSE <<Error([op |-> req.of], 0, "INVALID_PDU")>>)
    /\ IF req.of = "EXEC_WRITE" THEN Forget ELSE UNCHANGED <<prep, chunks>>
    /\ UNCHANGED <<db, flags, mtu, writes>>

Next == /\ last.up
        /\ \E req \in Requests :
               \/ Look(req) \/ ExchangeMtu(req) \/ WriteRequest(req)
               \/ Prepare(req) \/ Execute(req) \/ Malformed(req)

Spec == Init /\ [][Next]_vars

-----------------------------------------------------------------------------
Lists == {"READ_BY_GROUP_RSP", "READ_BY_TYPE_RSP", "FIND_INFO_RSP",
          "FIND_BY_TYPE_VALUE_RSP"}

Stores == {h \in 1 .. 18 : At(h).read = "stored" /\ At(h).write = "stored"}

\* Type correctness: the values that can change are bytes, the flags are
\* there, and no more than MaxPrep prepared writes are kept
TypeOK ==
    /\ At(14).value \in Seq(Byte)
    /\ Len(At(14).value) < LenMod
    /\ flags \in [Cccs -> BOOLEAN]
    /\ mtu \in [server : Nat, att : Nat, client : Nat]
    /\ Len(prep) <= MaxPrep
    /\ \A i \in DOMAIN prep : prep[i].handle \in Stores
    /\ writes \in 0 .. MaxWrites

\* A request is answered once, after the notifications it causes, a command
\* not at all, and nothing is longer than the MTU the client knows of: a
\* longer PDU is refused by bt_att_send and the client waits in vain. There
\* are two exceptions, both of a prepared write for which there is no memory.
\* One that cannot be kept gets two answers, and the error, which names the
\* response and not the request, comes first (gatt-server.c:1240). One that
\* passed every check but cannot be copied gets none: the process writes to
\* NULL (gatt-server.c:1290). Nothing else ends the process.
EndedPreparing ==
    LET a == At(last.req.handle)
    IN  /\ last.req.op = "PREP_WRITE" /\ AllocMayFail /\ last.out = <<>>
        /\ a # None /\ Permits(a, "WRITE") /\ Len(prep) < MaxPrep
TwiceAnswered ==
    /\ last.req.op = "PREP_WRITE" /\ AllocMayFail /\ Len(last.out) = 2
    /\ last.out[1].op = "ERROR" /\ last.out[1].body[1] = "PREP_WRITE_RSP"
    /\ last.out[2].op = "PREP_WRITE_RSP"
Answered ==
    LET answers == {i \in DOMAIN last.out : last.out[i].op # "NOTIFICATION"}
        op == IF last.req.op = "MALFORMED" THEN last.req.of ELSE last.req.op
        final == last.out[Len(last.out)]
    IN  /\ ~last.up => EndedPreparing
        /\ \A i \in DOMAIN last.out : last.out[i].len <= mtu.client
        /\ IF op \in Commands \cup {"none"} THEN answers = {}
           ELSE \/ TwiceAnswered
                \/ ~last.up
                \/ /\ last.out # <<>> /\ answers = {Len(last.out)}
                   /\ \/ final.op = RspOf[op]
                      \/ final.op = "ERROR" /\ final.body[1] = op

\* What a request of a range asks for, read off the database itself
Wanted(req) ==
    LET Of(h) == At(h) # None /\ h \in req.start .. req.end
    IN  CASE req.op = "FIND_INFO" -> {h \in 1 .. 18 : Of(h)}
          [] req.op = "FIND_BY_TYPE_VALUE" ->
                {h \in 1 .. 18 : /\ Of(h) /\ At(h).uuid = req.type
                                 /\ Len(At(h).value) = Len(req.value)
                                 /\ At(h).value = req.value}
          [] OTHER -> {h \in 1 .. 18 : Of(h) /\ At(h).uuid = req.type}

\* A list leaves nothing out: it names the wanted handles in order up to its
\* last, at least one, and "not found" means that there are none. A client
\* that asks again behind the last handle of each answer finds everything.
\* An entry is cut only if it is the whole list. Find By Type Value counts
\* for services only: find_by_type_val_cb does not look at the type.
ListsWithoutGap ==
    LET req == last.req
        rsp == last.out[1]
        named == [k \in DOMAIN rsp.body |-> rsp.body[k].handle]
        lists == \/ req.op \in {"READ_BY_GROUP", "READ_BY_TYPE", "FIND_INFO"}
                 \/ req.op = "FIND_BY_TYPE_VALUE" /\ req.type = Db!PRIMARY
        Whole(k) == CASE req.op = "READ_BY_TYPE" -> Value(At(named[k]), 0)
                      [] req.op = "READ_BY_GROUP" -> At(named[k]).value
    IN  lists =>
        /\ rsp.op \in Lists =>
              /\ named # <<>>
              /\ \A i, j \in DOMAIN named : i < j => named[i] < named[j]
              /\ ToSet(named) = {h \in Wanted(req) : h <= Last(named)}
              /\ req.op \in {"READ_BY_GROUP", "READ_BY_TYPE"} =>
                     \A k \in DOMAIN named :
                         \/ rsp.body[k].value = Whole(k)
                         \/ /\ Len(named) = 1
                            /\ IsPrefix(rsp.body[k].value, Whole(k))
              /\ req.op \in {"READ_BY_GROUP", "FIND_BY_TYPE_VALUE"} =>
                     \A k \in DOMAIN named :
                         rsp.body[k].end
                             = Db!End(Db!GetService(db, named[k]))
        /\ rsp.op = "ERROR" /\ rsp.body[3] = "ATTRIBUTE_NOT_FOUND" =>
              Wanted(req) = {}

\* A client reads a stored value in pieces: a Read, then a Read Blob at the
\* end of what it has, until a piece is not full. It ends up with the value.
LongRead ==
    LET size == mtu.att - 1
        Piece(h, k) == ReadAnswer([op |-> IF k = 0 THEN "READ" ELSE "READ_BLOB",
                                   handle |-> h, offset |-> k * size])
        Upto(h, n) == FlattenSeq([k \in 1 .. n |-> Piece(h, k - 1).body])
    IN  \A h \in Stores :
            LET n == Len(At(h).value) \div size + 1
            IN  /\ \A k \in 0 .. n - 1 : Piece(h, k).op \in {"READ_RSP",
                                                             "READ_BLOB_RSP"}
                /\ \A k \in 0 .. n - 2 : Len(Piece(h, k).body) = size
                /\ Len(Piece(h, n - 1).body) < size
                /\ Upto(h, n) = At(h).value

\* A write that was answered is read back, whatever was there before; of a
\* client characteristic configuration the second byte is not looked at
WrittenIsRead ==
    LET req == last.req
        read == ReadAnswer([op |-> "READ", handle |-> req.handle,
                            offset |-> 0])
    IN  req.op = "WRITE" /\ Last(last.out).op = "WRITE_RSP"
            /\ "READ" \in At(req.handle).perms
        => IF At(req.handle).write \in Cccs THEN read.body[1] = req.value[1]
           ELSE IsPrefix(req.value, read.body)

\* Nothing a client sends changes a value it may not write, prepared or not
ReadOnlyKept ==
    [][\A h \in Stores :
           "WRITE" \notin At(h).perms => At(h)' = At(h)]_vars

\* One prepared write on its own: `data' from `offset' on, the rest as it was
Overwritten(old, offset, data) ==
    [i \in 1 .. IF data = <<>> THEN Len(old)
                ELSE Max({Len(old), offset + Len(data)}) |->
        IF i > offset /\ i <= offset + Len(data) THEN data[i - offset]
        ELSE IF i <= Len(old) THEN old[i]
        ELSE IF old = <<>> THEN 0 ELSE UnknownByte]

\* The value that prepared writes give, made one after the other
OverwrittenBy(old, cs) ==
    LET upTo[n \in 0 .. Len(cs)] ==
            IF n = 0 THEN old
            ELSE Overwritten(upTo[n - 1], cs[n].offset, cs[n].value)
    IN  upTo[Len(cs)]

\* Writes are made as a whole. A long write: an Execute Write that succeeds
\* leaves the value that all prepared writes give, made one after the other as
\* they were sent, and nothing else but a plain write changes the database at
\* all. Every Execute Write leaves the queue empty. Not beyond LenMod: see
\* README.
\* A plain write that was answered is read back.
WritesWhole ==
    [][LET req == last'.req
           written == /\ req.op = "EXEC_WRITE" /\ req.flags = 1
                      /\ last'.out[1].op = "EXEC_WRITE_RSP"
           fits == \A i \in DOMAIN chunks :
                       chunks[i].offset + Len(chunks[i].value) < LenMod
       IN  /\ WrittenIsRead'
           /\ req.op = "EXEC_WRITE" => prep' = <<>>
           /\ written /\ fits =>
                  At(14)'.value = OverwrittenBy(At(14).value, chunks)
           /\ ~written /\ req.op \notin {"WRITE", "WRITE_CMD"} => db' = db
           /\ req.op \notin {"WRITE", "WRITE_CMD"} => flags' = flags]_vars

=============================================================================
