------------------------------ MODULE MCGatt ------------------------------
(* The clients of GattServer. Handles 1 to 18 are in use.                   *)
EXTENDS GattServer

Same(n, byte) == [i \in 1 .. n |-> byte]

\* A client that looks around: every kind of list over ranges that begin and
\* end at, before and behind services, and reads of every attribute
From == {0, 1, 2, 8, 9, 12, 14, 16, 19}
To == {0, 7, 10, 15, 65535}
Types == {Db!PRIMARY, Db!CHARACTERISTIC, Ccc, Long("i2c_write_data"),
          Short("device_name"), Short("other")}
ServiceUuids == {Db!UuidBytes(Short("gatt")), Db!UuidBytes(Long("i2c_read"))}

Lookups ==
    [op : {"READ_BY_GROUP"}, start : From, end : To,
     type : {Db!PRIMARY, Db!SECONDARY, Db!CHARACTERISTIC}]
        \cup [op : {"READ_BY_TYPE"}, start : From, end : To, type : Types]
        \cup [op : {"FIND_INFO"}, start : From, end : To]
        \cup [op : {"FIND_BY_TYPE_VALUE"}, start : From, end : To,
              type : {Db!PRIMARY}, value : ServiceUuids]
Reads ==
    [op : {"READ"}, handle : 0 .. 19, offset : {0}]
        \cup [op : {"READ_BLOB"}, handle : {3, 11, 14, 18}, offset : {2, 10, 11}]
        \cup [op : {"READ_MULT"}, handles : {3, 10, 14, 18, 19} \X {3, 14, 18}]
        \cup [op : {"READ_MULT"}, handles : {3, 14} \X {3, 7} \X {15, 18, 19}]
Garbage == [op : {"MALFORMED"},
            of : {"READ", "WRITE_CMD", "PREP_WRITE", "EXEC_WRITE"}]

LookingAround == Lookups \cup Reads \cup Garbage
    \cup [op : {"MTU"}, mtu : {22, 30, 60}]
    \cup [op : {"WRITE"}, handle : {15}, value : {<<1, 0>>}]
    \cup [op : {"WRITE"}, handle : {14}, value : {Same(22, 1), Same(20, 1)}]
    \cup [op : {"WRITE_CMD"}, handle : {18, 19}, value : {<<1>>}]
    \cup [op : {"PREP_WRITE"}, handle : {14, 18}, offset : {0}, value : {<<1>>}]
    \cup [op : {"EXEC_WRITE"}, flags : 0 .. 2]

\* A client that writes, by requests, by commands and in pieces
Writing ==
    [op : {"WRITE"}, handle : {15},
              value : {<<>>, <<0, 0>>, <<1, 0>>, <<1, 1>>, <<2, 0>>}]
        \cup [op : {"WRITE"}, handle : {3, 14, 19}, value : {Same(3, 1)}]
        \cup [op : {"WRITE_CMD"}, handle : {3, 14, 18}, value : {Same(2, 2)}]
        \cup [op : {"PREP_WRITE"}, handle : {14}, offset : {0, 2, 18, 99},
              value : {<<>>, Same(18, 3)}]
        \cup [op : {"PREP_WRITE"}, handle : {14}, offset : {18},
              value : {Same(4, 4)}]
        \cup [op : {"PREP_WRITE"}, handle : {3, 15}, offset : {0},
              value : {<<1, 0>>}]
        \cup [op : {"EXEC_WRITE"}, flags : 0 .. 2]
        \cup [op : {"READ"}, handle : {14}, offset : {0}]
        \cup Garbage

=============================================================================
