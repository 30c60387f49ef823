----------------------------- MODULE MCGattDb -----------------------------
(* GattDb with five handles and a UUID of each size.                       *)
EXTENDS GattDb

MCUuids == {[name |-> "short", size |-> 2], [name |-> "long", size |-> 16]}

=============================================================================
