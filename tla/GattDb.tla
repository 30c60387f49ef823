------------------------------ MODULE GattDb ------------------------------
(***************************************************************************)
(* The attribute database: bluez-5.50/src/shared/gatt-db.c.  A caller adds *)
(* services, fills each with characteristics, descriptors and included     *)
(* services, makes it active, and removes it again; meanwhile the GATT     *)
(* server searches the database.  The calls are maps from a database to a  *)
(* database (a call that returns NULL leaves it as it is); the searches    *)
(* are functions of a database.                                            *)
(*                                                                         *)
(* Here any sequence of the calls is made, not only that of populate_db.   *)
(* A caller that names a handle himself has to choose it with care: the    *)
(* code refuses only some of the handles that lead to disorder.            *)
(***************************************************************************)
EXTENDS Integers, Sequences, SequencesExt, FiniteSets, FiniteSetsExt

CONSTANTS
    MaxHandle,  \* UINT16_MAX
    Uuids,      \* the UUIDs a caller gives to what it adds
    Places,     \* bound: the handles a caller names
    MaxNum,     \* bound: handles a caller asks for in one service
    None        \* NULL

PRIMARY == [name |-> "primary", size |-> 2]
SECONDARY == [name |-> "secondary", size |-> 2]
CHARACTERISTIC == [name |-> "characteristic", size |-> 2]
INCLUDED == [name |-> "included", size |-> 2]
Reserved == {PRIMARY, SECONDARY, CHARACTERISTIC, INCLUDED}

ASSUME HandleAssumption ==
    MaxHandle \in Nat \ {0} /\ MaxNum \in Nat /\ Places \subseteq 1 .. MaxHandle
ASSUME UuidAssumption ==
    \A u \in Uuids : u.size \in {2, 16} /\ u \notin Reserved

VARIABLE db

-----------------------------------------------------------------------------
(* Attributes and services                                                 *)

\* What a declaration holds: the UUID, byte for byte; for a characteristic
\* its properties and the handle of its value come before
UuidBytes(uuid) == [i \in 1 .. uuid.size |-> uuid.name]
Declared(properties, handle, uuid) ==
    <<properties, handle, handle>> \o UuidBytes(uuid)

\* struct gatt_db_attribute. `read' and `write' name the callbacks, "stored"
\* is for NULL: the value is kept here.
Attribute(handle, uuid, perms, value, read, write) ==
    [handle |-> handle, uuid |-> uuid, perms |-> perms, value |-> value,
     read |-> read, write |-> write]

Fixed(handle, type, value) ==
    Attribute(handle, type, {"READ"}, value, "stored", "stored")

\* gatt_db_service_get_handles
Start(s) == s.attributes[1].handle
End(s) == Start(s) + s.num_handles - 1

NewDb == [services |-> <<>>, next_handle |-> 1]

\* gatt_db_service_create. attributes[] has num_handles places; they fill in
\* order, and a sequence stands for the filled ones.
NewService(handle, primary, uuid, num) ==
    [active |-> FALSE, num_handles |-> num,
     attributes |-> <<Fixed(handle, IF primary THEN PRIMARY ELSE SECONDARY,
                            UuidBytes(uuid))>>]

-----------------------------------------------------------------------------
(* The calls                                                               *)

Overlaps(s, start, end) ==
    start \in Start(s) .. End(s) \/ end \in Start(s) .. End(s)

\* find_insert_loc: the first service that overlaps start .. end or lies
\* behind it, or one past the last
Location(d, start, end) ==
    Min({k \in DOMAIN d.services : \/ Overlaps(d.services[k], start, end)
                                   \/ end < Start(d.services[k])}
            \cup {Len(d.services) + 1})

\* Mutant of InsertService: the end is not compared with the last handle
InsertServiceAnyEnd(d, handle, primary, uuid, num) ==
    IF handle < 1 \/ num < 1 THEN d
    ELSE [services |-> InsertAt(d.services,
                                Location(d, handle, handle + num - 1),
                                NewService(handle, primary, uuid, num)),
          next_handle |-> (handle + num) % (MaxHandle + 1)]

\* gatt_db_insert_service. next_handle is 16 bits wide: behind the last
\* handle it is 0, which no later call accepts.
InsertService(d, handle, primary, uuid, num) ==
    LET end == handle + num - 1
        k == Location(d, handle, end)
        taken == k \in DOMAIN d.services /\ Overlaps(d.services[k], handle, end)
    IN  IF handle < 1 \/ num < 1 \/ end > MaxHandle \/ taken THEN d
        ELSE [services |-> InsertAt(d.services, k,
                                    NewService(handle, primary, uuid, num)),
              next_handle |-> Max({handle + num, d.next_handle})
                                  % (MaxHandle + 1)]

\* gatt_db_add_service
AddService(d, primary, uuid, num) ==
    InsertService(d, d.next_handle, primary, uuid, num)

\* Mutant of HasRoom: end_offset is forgotten
HasRoomToEnd(s, end_offset) == Len(s.attributes) < s.num_handles

\* get_attribute_index: there is a free place before the last end_offset ones
HasRoom(s, end_offset) == Len(s.attributes) < s.num_handles - end_offset

Filled(d, k, attributes) ==
    [d EXCEPT !.services[k].attributes = @ \o attributes]

\* the handle that comes next in a service; 16 bits
NextIn(s, n) == (Last(s.attributes).handle + n) % (MaxHandle + 1)

\* Mutants of InsertCharacteristic: the declaration gives its own handle; the
\* value follows at the handle of the declaration
DeclaresItself(d, k, at, uuid, perms, properties, read, write) ==
    LET s == d.services[k]
        handle == IF at = 0 THEN NextIn(s, 2) ELSE at
    IN  IF ~HasRoom(s, 1) \/ at \in 1 .. Start(s) \/ at = MaxHandle THEN d
        ELSE Filled(d, k,
                <<Fixed(handle - 1, CHARACTERISTIC,
                        Declared(properties, handle - 1, uuid)),
                  Attribute(handle, uuid, perms, <<>>, read, write)>>)
ValueAtDeclaration(d, k, at, uuid, perms, properties, read, write) ==
    LET s == d.services[k]
        handle == IF at = 0 THEN NextIn(s, 1) ELSE at
    IN  IF ~HasRoom(s, 1) \/ at \in 1 .. Start(s) \/ at = MaxHandle THEN d
        ELSE Filled(d, k,
                <<Fixed(handle, CHARACTERISTIC,
                        Declared(properties, handle, uuid)),
                  Attribute(handle, uuid, perms, <<>>, read, write)>>)

\* service_insert_characteristic: the declaration and the value, whose handle
\* the caller names or leaves to the code with 0
InsertCharacteristic(d, k, at, uuid, perms, properties, read, write) ==
    LET s == d.services[k]
        handle == IF at = 0 THEN NextIn(s, 2) ELSE at
    IN  IF ~HasRoom(s, 1) \/ at \in 1 .. Start(s) \/ at = MaxHandle THEN d
        ELSE Filled(d, k,
                <<Fixed(handle - 1, CHARACTERISTIC,
                        Declared(properties, handle, uuid)),
                  Attribute(handle, uuid, perms, <<>>, read, write)>>)

\* gatt_db_service_add_characteristic
AddCharacteristic(d, k, uuid, perms, properties, read, write) ==
    InsertCharacteristic(d, k, 0, uuid, perms, properties, read, write)

\* service_insert_descriptor
InsertDescriptor(d, k, at, uuid, perms, read, write) ==
    LET s == d.services[k]
        handle == IF at = 0 THEN NextIn(s, 1) ELSE at
    IN  IF ~HasRoom(s, 0) \/ at \in 1 .. Start(s) THEN d
        ELSE Filled(d, k,
                    <<Attribute(handle, uuid, perms, <<>>, read, write)>>)

\* gatt_db_service_add_descriptor
AddDescriptor(d, k, uuid, perms, read, write) ==
    InsertDescriptor(d, k, 0, uuid, perms, read, write)

\* service_insert_included. The handle the caller names is checked, but
\* attribute_update gives the attribute the one behind the last attribute.
InsertIncluded(d, k, at, included) ==
    LET s == d.services[k]
        i == d.services[included]
        uuid == i.attributes[1].value
    IN  IF ~HasRoom(s, 0) \/ at \in 1 .. Start(s) THEN d
        ELSE Filled(d, k,
                <<Fixed(NextIn(s, 1), INCLUDED,
                        <<Start(i), End(i)>>
                            \o (IF Len(uuid) = 2 THEN uuid ELSE <<>>))>>)

\* gatt_db_remove_service
RemoveService(d, k) == [d EXCEPT !.services = RemoveAt(@, k)]

\* queue_remove_all with match_range, service after service
Outside(services, start, end) ==
    LET left[n \in 0 .. Len(services)] ==
            IF n = 0 THEN <<>>
            ELSE IF Start(services[n]) > end \/ End(services[n]) < start
                 THEN Append(left[n - 1], services[n])
                 ELSE left[n - 1]
    IN  left[Len(services)]

\* gatt_db_clear_range, gatt_db_clear: all services that have a handle in the
\* range. An empty database has no next handle: only gatt_db_insert_service
\* can give it a service again.
ClearRange(d, start, end) ==
    LET left == Outside(d.services, start, end)
    IN  IF start > end THEN d
        ELSE [services |-> left,
              next_handle |-> IF left = <<>> THEN 0 ELSE d.next_handle]

\* gatt_db_service_set_active. Nobody registers for the notification.
SetActive(d, k, active) ==
    [d EXCEPT !.services[k].active = active]

-----------------------------------------------------------------------------
(* The searches                                                            *)

\* What of a sequence is at the places of a set, in order
Those(s, places) ==
    LET upTo[n \in 0 .. Len(s)] ==
            IF n = 0 THEN <<>>
            ELSE IF n \in places THEN Append(upTo[n - 1], s[n])
                 ELSE upTo[n - 1]
    IN  upTo[Len(s)]

\* The attributes of the active services, service after service
ActiveAttributes(d) ==
    LET upTo[n \in 0 .. Len(d.services)] ==
            IF n = 0 THEN <<>>
            ELSE IF d.services[n].active
                 THEN upTo[n - 1] \o d.services[n].attributes
                 ELSE upTo[n - 1]
    IN  upTo[Len(d.services)]

\* gatt_db_get_service, gatt_db_get_attribute: the first that fits
Holding(d, handle) ==
    {k \in DOMAIN d.services :
         handle \in Start(d.services[k]) .. End(d.services[k])}

GetService(d, handle) ==
    LET holding == Holding(d, handle)
    IN  IF holding = {} THEN None ELSE d.services[Min(holding)]

GetAttribute(d, handle) ==
    LET At(s) == {i \in DOMAIN s.attributes : s.attributes[i].handle = handle}
        found == IF Holding(d, handle) = {} THEN {}
                 ELSE {s \in {GetService(d, handle)} : At(s) # {}}
    IN  IF found = {} THEN None
        ELSE CHOOSE a \in {s.attributes[Min(At(s))] : s \in found} : TRUE

\* gatt_db_read_by_group_type: the services of a type, up to the first whose
\* UUID has another size than that of the first
ReadByGroupType(d, start, end, type) ==
    LET q == d.services
        groups == Those(q, {k \in DOMAIN q : /\ q[k].active
                                             /\ q[k].attributes[1].uuid = type
                                             /\ Start(q[k]) \in start .. end})
        Size(k) == Len(groups[k].attributes[1].value)
        same == {n \in 0 .. Len(groups) : \A k \in 1 .. n : Size(k) = Size(1)}
    IN  SubSeq(groups, 1, Max(same))

\* gatt_db_find_by_type_value
FindByTypeValue(d, start, end, type, value) ==
    LET q == ActiveAttributes(d)
    IN  Those(q, {i \in DOMAIN q : /\ q[i].handle \in start .. end
                                   /\ q[i].uuid = type
                                   /\ Len(q[i].value) = Len(value)
                                   /\ q[i].value = value})

\* gatt_db_read_by_type, gatt_db_find_information
ReadByType(d, start, end, type) ==
    LET q == ActiveAttributes(d)
    IN  Those(q, {i \in DOMAIN q : q[i].handle \in start .. end /\ q[i].uuid = type})
FindInformation(d, start, end) ==
    LET q == ActiveAttributes(d)
    IN  Those(q, {i \in DOMAIN q : q[i].handle \in start .. end})

-----------------------------------------------------------------------------
Init == db = NewDb

\* find_insert_loc looks whether the ends of the new range lie in a service,
\* not whether a service lies between them: a caller has to
Encloses(d, start, end) ==
    \E k \in DOMAIN d.services : /\ start < Start(d.services[k])
                                  /\ End(d.services[k]) < end

CallInsertService ==
    \E handle \in {db.next_handle} \cup Places, primary \in BOOLEAN,
       uuid \in Uuids, num \in 0 .. MaxNum :
        /\ ~Encloses(db, handle, handle + num - 1)
        /\ db' = InsertService(db, handle, primary, uuid, num)

\* A named handle has to lie behind the last attribute and, with the n - 1
\* before it, in the service. Behind a gap the code must not be left to go on
\* past the end: only the places are counted.
WellPlaced(s, at, n) ==
    LET last == Last(s.attributes).handle
    IN  IF at = 0 THEN Len(s.attributes) < last - Start(s) + 1 => last + n <= End(s)
        ELSE last + n <= at /\ at <= End(s)

CallInsertCharacteristic ==
    \E k \in DOMAIN db.services, at \in {0} \cup Places, uuid \in Uuids :
        /\ WellPlaced(db.services[k], at, 2)
        /\ db' = InsertCharacteristic(db, k, at, uuid, {"READ"}, {"READ"},
                                      "stored", "stored")

CallInsertDescriptor ==
    \E k \in DOMAIN db.services, at \in {0} \cup Places, uuid \in Uuids :
        /\ WellPlaced(db.services[k], at, 1)
        /\ db' = InsertDescriptor(db, k, at, uuid, {"READ"}, "stored", "stored")

\* What is included is announced with the handles it has now
CallInsertIncluded ==
    \E k, included \in DOMAIN db.services, at \in {0} \cup Places :
        /\ WellPlaced(db.services[k], 0, 1)
        /\ db' = InsertIncluded(db, k, at, included)

\* Nothing that is left includes what goes
Included(d, k) ==
    \E s \in ToSet(d.services) \ {d.services[k]} : \E a \in ToSet(s.attributes) :
        a.uuid = INCLUDED /\ a.value[1] = Start(d.services[k])

CallRemoveService ==
    \E k \in DOMAIN db.services :
        ~Included(db, k) /\ db' = RemoveService(db, k)

CallClearRange ==
    \E start, end \in Places :
        /\ \A k \in DOMAIN db.services : ~Included(db, k)
        /\ db' = ClearRange(db, start, end)

CallSetActive ==
    \E k \in DOMAIN db.services, active \in BOOLEAN :
        db' = SetActive(db, k, active)

Next == \/ CallInsertService \/ CallInsertCharacteristic
        \/ CallInsertDescriptor \/ CallInsertIncluded
        \/ CallRemoveService \/ CallClearRange \/ CallSetActive

Spec == Init /\ [][Next]_db

-----------------------------------------------------------------------------
Handles == 1 .. MaxHandle

\* Type correctness: every handle that is given out has 16 bits and is not 0,
\* and a service holds no more attributes than it asked for
TypeOK ==
    /\ db.next_handle \in 0 .. MaxHandle
    /\ \A k \in DOMAIN db.services :
           LET s == db.services[k]
           IN  /\ s.active \in BOOLEAN
               /\ s.num_handles \in Handles
               /\ Len(s.attributes) \in 1 .. s.num_handles
               /\ End(s) \in Handles
               /\ \A i \in DOMAIN s.attributes :
                      /\ s.attributes[i].handle \in Handles
                      /\ s.attributes[i].uuid \in Uuids \cup Reserved

\* The services lie one behind the other and the attributes of each ascend
\* inside its range, in whatever order they came and others went: what the searches of
\* gatt-db.c rely on when they leave a service at the first handle past the
\* end, and gatt-server.c when it answers in the order of the database
HandlesAscend ==
    \A k \in DOMAIN db.services :
        LET s == db.services[k]
        IN  /\ \A i \in DOMAIN s.attributes :
                   s.attributes[i].handle \in Start(s) .. End(s)
            /\ \A i, j \in DOMAIN s.attributes :
                   i < j => s.attributes[i].handle < s.attributes[j].handle
            /\ k > 1 => End(db.services[k - 1]) < Start(s)

\* gatt_db_get_attribute finds every attribute under the handle it was given
FoundAgain ==
    \A k \in DOMAIN db.services :
        \A i \in DOMAIN db.services[k].attributes :
            LET a == db.services[k].attributes[i]
            IN  GetAttribute(db, a.handle) = a

\* The declaration of a characteristic is followed, in the same service, by
\* the attribute it announces: handle - 1 is the declaration of handle, as
\* prep_data_new of gatt-server.c takes for granted
ValueFollows ==
    \A k \in DOMAIN db.services :
        LET attributes == db.services[k].attributes
        IN  \A i \in DOMAIN attributes :
                LET a == attributes[i]
                IN  a.uuid = CHARACTERISTIC =>
                        /\ i + 1 \in DOMAIN attributes
                        /\ attributes[i + 1].handle = a.value[2]
                        /\ a.value[2] = a.handle + 1
                        /\ Tail(Tail(Tail(a.value)))
                               = UuidBytes(attributes[i + 1].uuid)

\* An included service is announced with the first and the last handle of a
\* service that is there, and with its UUID only if that has 16 bits: a client
\* goes by these numbers without looking (gatt-db.c:892)
IncludesMatch ==
    \A s \in ToSet(db.services) : \A a \in ToSet(s.attributes) :
        a.uuid = INCLUDED =>
            \E i \in ToSet(db.services) :
                LET uuid == i.attributes[1].value
                IN  a.value = <<Start(i), End(i)>>
                                \o (IF Len(uuid) = 2 THEN uuid ELSE <<>>)

\* What a declaration announces is there
DeclarationsMatch == ValueFollows /\ IncludesMatch

=============================================================================
